---- MODULE Spec2Model ----
(***************************************************************************)
(* A model of the Mastic proof of concept: the VIDPF of poc/vidpf.py       *)
(* (gen, eval, eval_next and the driver main()) and the VDAF of            *)
(* poc/mastic.py (shard, is_valid, prep_init, prep_shares_to_prep,         *)
(* prep_next).                                                             *)
(*                                                                         *)
(* Scaling.  Byte strings of SEED_SIZE bytes are numbers of SeedBits bits, *)
(* the field is Z_FieldMod, and SHA3-256 is an injective symbolic hash: a  *)
(* digest is a set of atoms, XOR of digests is symmetric difference, the   *)
(* digest of x is the one-atom set holding x.  Mastic calls the VIDPF with  *)
(* ctx and nonce where poc/vidpf.py takes one binder, and carries the      *)
(* cs_proofs in the public share next to the correction words.  The FLP,   *)
(* the XOF and dst.py are modelled from their interfaces; a seed the XOF   *)
(* derives is the triple it is derived from.                               *)
(***************************************************************************)
EXTENDS Integers, Sequences, FiniteSets, TLC

\* ------------------------------------------------------------- parameters

\* Vidpf.with_params(Field128, 2, 1) in main()
BITS == 2
VALUE_LEN == 1
\* Vidpf.SHARES
SHARES == 2
\* the modulus of the field (Field128, Field64), scaled down
FieldMod == 5
\* XofFixedKeyAes128.SEED_SIZE / XofTurboShake128.SEED_SIZE, in bits, scaled down
SeedBits == 4

\* the longest list of candidate prefixes an aggregation parameter carries
MaxPrefixes == 2
\* the number of measurements the driver processes
MaxReports == 2

RECURSIVE Pow2(_)
Pow2(n) == IF n = 0 THEN 1 ELSE 2 * Pow2(n - 1)

SeedMod == Pow2(SeedBits)
Seeds == 0 .. (SeedMod - 1)
FieldElems == 0 .. (FieldMod - 1)
Binders == 0 .. 1

\* ------------------------------------------------------------- field, bytes

FAdd(a, b) == (a + b) % FieldMod
FSub(a, b) == (a - b + FieldMod) % FieldMod
FMul(a, b) == (a * b) % FieldMod
FNeg(a) == (FieldMod - a) % FieldMod

vec_add(u, v) == [i \in 1 .. Len(u) |-> FAdd(u[i], v[i])]
vec_sub(u, v) == [i \in 1 .. Len(u) |-> FSub(u[i], v[i])]
vec_neg(u) == [i \in 1 .. Len(u) |-> FNeg(u[i])]
zeros(n) == [i \in 1 .. n |-> 0]

\* Field2: addition and multiplication in GF(2)
F2Add(a, b) == (a + b) % 2
F2Mul(a, b) == (a * b) % 2

\* xor of two byte strings of one length (numbers of SeedBits bits)
RECURSIVE xor(_, _)
xor(a, b) ==
  IF a = 0 THEN b
  ELSE IF b = 0 THEN a
  ELSE ((a + b) % 2) + 2 * xor(a \div 2, b \div 2)

\* xor of two SHA3 digests
xorDigest(A, B) == (A \ B) \cup (B \ A)

\* Field2.conditional_select: the string if the bit is set, zeros otherwise
conditional_select(ctrl, k) == IF ctrl = 1 THEN k ELSE 0

\* hashlib.sha3_256 of the bytes x
Sha3(x) == {x}

\* Vidpf.ROOT_PROOF: the hash of the empty string
ROOT_PROOF == Sha3(<<"empty">>)

\* ------------------------------------------------------------- XOF

\* the mixing table of the toy XOF, a permutation of 0 .. 15
Sbox == <<12, 5, 6, 11, 9, 0, 10, 13, 3, 14, 15, 8, 4, 7, 1, 2>>

\* the i-th output unit of the XOF keyed by seed, with domain separation tag
\* usage and the given binder; for seeds of SeedBits bits no two seeds give
\* the same unit
XofByte(seed, usage, binder, i) ==
  Sbox[((Sbox[((seed + 5 * usage + 3 * i) % 16) + 1] + 7 * binder + i) % 16) + 1]

\* Vidpf.extend: two seeds and two control bits from one seed
extend(seed, binder) ==
  LET bit == XofByte(seed, 0, binder, 2)
  IN [s |-> [b \in 0 .. 1 |-> XofByte(seed, 0, binder, b) % SeedMod],
      t |-> [b \in 0 .. 1 |-> IF b = 0 THEN bit % 2 ELSE (bit \div 2) % 2]]

\* Vidpf.convert: the next seed and a vector of VALUE_LEN field elements
\* (level is unused, as in the source)
convert(seed, level, binder) ==
  [seed |-> XofByte(seed, 1, binder, 0) % SeedMod,
   w |-> [j \in 1 .. VALUE_LEN |-> XofByte(seed, 1, binder, j) % FieldMod]]

\* correct(k_0, k_1, ctrl) on byte strings and on Field2 elements
correct(k_0, k_1, ctrl) == xor(k_0, conditional_select(ctrl, k_1))
correctCtrl(k_0, k_1, ctrl) == F2Add(k_0, F2Mul(ctrl, k_1))

\* ------------------------------------------------------------- Vidpf.gen

\* (mutant) the payload correction word without the sign mask
GenWcwUnmasked(beta, w_0, w_1, ctrl1) == vec_add(vec_sub(beta, w_0), w_1)

\* the masked payload correction word of one level
GenWcw(beta, w_0, w_1, ctrl1) ==
  LET w_cw == vec_add(vec_sub(beta, w_0), w_1)
      mask == FSub(1, FMul(2, ctrl1))
  IN [j \in 1 .. Len(w_cw) |-> FMul(w_cw[j], mask)]

\* (mutant) the control-bit correction words without the constant 1 of t_c^L
GenCtrlCwNoOne(t_0, t_1, bit) ==
  [b \in 0 .. 1 |->
     IF b = 0 THEN F2Add(F2Add(t_0[0], t_1[0]), bit)
     ELSE F2Add(F2Add(t_0[1], t_1[1]), bit)]

\* the control-bit correction words of one level
GenCtrlCw(t_0, t_1, bit) ==
  [b \in 0 .. 1 |->
     IF b = 0 THEN F2Add(F2Add(F2Add(t_0[0], t_1[0]), 1), bit)
     ELSE F2Add(F2Add(t_0[1], t_1[1]), bit)]

\* (mutant) the proof correction taken from the first party's hash alone
GenCsProofOneSided(node, i, seed) == Sha3(<<"node", node, i, seed[0]>>)

\* the proof correction of one level
GenCsProof(node, i, seed) ==
  xorDigest(Sha3(<<"node", node, i, seed[0]>>), Sha3(<<"node", node, i, seed[1]>>))

\* one pass of the loop of Vidpf.gen, for level i: the two parties' next seeds
\* and control bits, the correction word and the proof correction
GenLevel(i, seed, ctrl, alpha, beta, binder) ==
  LET node == alpha \div Pow2(BITS - i - 1)
      bit == node % 2
      keep == bit
      lose == 1 - bit
      e0 == extend(seed[0], binder)
      e1 == extend(seed[1], binder)
      seed_cw == xor(e0.s[lose], e1.s[lose])
      ctrl_cw == GenCtrlCw(e0.t, e1.t, bit)
      c0 == convert(correct(e0.s[keep], seed_cw, ctrl[0]), i, binder)
      c1 == convert(correct(e1.s[keep], seed_cw, ctrl[1]), i, binder)
      nseed == [b \in 0 .. 1 |-> IF b = 0 THEN c0.seed ELSE c1.seed]
      nctrl == [b \in 0 .. 1 |->
                  IF b = 0 THEN correctCtrl(e0.t[keep], ctrl_cw[keep], ctrl[0])
                  ELSE correctCtrl(e1.t[keep], ctrl_cw[keep], ctrl[1])]
      w_cw == GenWcw(beta, c0.w, c1.w, nctrl[1])
  IN [seed |-> nseed, ctrl |-> nctrl,
      cw |-> [seed_cw |-> seed_cw, ctrl_cw |-> ctrl_cw, w_cw |-> w_cw],
      cs_proof |-> GenCsProof(node, i, nseed)]

\* the loop of Vidpf.gen, from level i on
RECURSIVE GenLoop(_, _, _, _, _, _, _, _)
GenLoop(i, seed, ctrl, correction_words, cs_proofs, alpha, beta, binder) ==
  IF i = BITS
  THEN [correction_words |-> correction_words, cs_proofs |-> cs_proofs]
  ELSE
    LET g == GenLevel(i, seed, ctrl, alpha, beta, binder)
    IN GenLoop(i + 1, g.seed, g.ctrl, Append(correction_words, g.cw),
               Append(cs_proofs, g.cs_proof), alpha, beta, binder)

\* seed and ctrl of Vidpf.gen at the end of each pass of its loop, from level
\* i on
RECURSIVE GenStates(_, _, _, _, _, _)
GenStates(i, seed, ctrl, alpha, beta, binder) ==
  IF i = BITS THEN <<>>
  ELSE
    LET g == GenLevel(i, seed, ctrl, alpha, beta, binder)
    IN <<[seed |-> g.seed, ctrl |-> g.ctrl]>>
         \o GenStates(i + 1, g.seed, g.ctrl, alpha, beta, binder)

\* Vidpf.gen(alpha, beta, binder, rand); rand is a string of RAND_SIZE units
RAND_SIZE == 2
gen(alpha, beta, binder, rand) ==
  IF alpha >= Pow2(BITS) THEN [err |-> "alpha too long"]
  ELSE IF Len(rand) # RAND_SIZE THEN [err |-> "randomness has incorrect length"]
  ELSE
    LET init_seed == [b \in 0 .. 1 |-> rand[b + 1]]
        r == GenLoop(0, init_seed, [b \in 0 .. 1 |-> b], <<>>, <<>>, alpha, beta, binder)
    IN [err |-> "none", init_seed |-> init_seed,
        correction_words |-> r.correction_words, cs_proofs |-> r.cs_proofs]

\* ------------------------------------------------------------- Vidpf.eval

\* Vidpf.eval_next
eval_next(prev_seed, prev_ctrl, correction_word, cs_proof, current_level, node, pi_proof, binder) ==
  LET e == extend(prev_seed, binder)
      s == [b \in 0 .. 1 |->
              xor(e.s[b], conditional_select(prev_ctrl, correction_word.seed_cw))]
      t == [b \in 0 .. 1 |->
              F2Add(e.t[b], F2Mul(correction_word.ctrl_cw[b], prev_ctrl))]
      bit == node % 2
      next_ctrl == t[bit]
      c == convert(s[bit], current_level, binder)
      y == [i \in 1 .. Len(c.w) |->
              FAdd(c.w[i], FMul(correction_word.w_cw[i], next_ctrl))]
      pi_prime == Sha3(<<"node", node, current_level, c.seed>>)
      h2 == IF next_ctrl = 1
            THEN xorDigest(pi_proof, xorDigest(pi_prime, cs_proof))
            ELSE xorDigest(pi_proof, pi_prime)
  IN [seed |-> c.seed, ctrl |-> next_ctrl, y |-> y,
      pi_proof |-> xorDigest(pi_proof, Sha3(<<"hash", h2>>))]

\* one pass of "for s in [0, 1]": node n of current_level is computed from the
\* walk's current (seed, ctrl, pi_proof) unless prefix_tree_share holds it
EvalVisit(w, c, current_level, n) ==
  IF <<n, current_level>> \in DOMAIN w.share
  THEN w
  ELSE [w EXCEPT !.share = @ @@ (<<n, current_level>> :>
          eval_next(w.seed, w.ctrl, c.correction_words[current_level + 1],
                    c.cs_proofs[current_level + 1], current_level, n,
                    w.pi_proof, c.binder))]

\* (mutant) the walk of one prefix that keeps the pi_proof it came with
\* instead of taking the one stored with the node
RECURSIVE EvalLevelsStaleProof(_, _, _, _)
EvalLevelsStaleProof(w, c, prefix, current_level) ==
  IF current_level > c.level THEN w
  ELSE
    LET node == prefix \div Pow2(c.level - current_level)
        w1 == EvalVisit(w, c, current_level, node)
        w2 == EvalVisit(w1, c, current_level, xor(node, 1))
        e == w2.share[<<node, current_level>>]
    IN EvalLevelsStaleProof([share |-> w2.share, seed |-> e.seed, ctrl |-> e.ctrl,
                             pi_proof |-> w2.pi_proof, err |-> w2.err],
                            c, prefix, current_level + 1)

\* the walk of one prefix from current_level down to c.level
RECURSIVE EvalLevels(_, _, _, _)
EvalLevels(w, c, prefix, current_level) ==
  IF current_level > c.level THEN w
  ELSE
    LET node == prefix \div Pow2(c.level - current_level)
        w1 == EvalVisit(w, c, current_level, node)
        w2 == EvalVisit(w1, c, current_level, xor(node, 1))
        e == w2.share[<<node, current_level>>]
    IN EvalLevels([share |-> w2.share, seed |-> e.seed, ctrl |-> e.ctrl,
                   pi_proof |-> e.pi_proof, err |-> w2.err],
                  c, prefix, current_level + 1)

\* (mutant) the walk of the prefixes without the check of their length
RECURSIVE EvalPrefixesUnchecked(_, _, _)
EvalPrefixesUnchecked(w, c, k) ==
  IF k > Len(c.prefixes) THEN w
  ELSE EvalPrefixesUnchecked(
         EvalLevels([w EXCEPT !.seed = c.init_seed, !.ctrl = c.agg_id],
                    c, c.prefixes[k], 0),
         c, k + 1)

\* "for prefix in prefixes", from the k-th prefix on
RECURSIVE EvalPrefixes(_, _, _)
EvalPrefixes(w, c, k) ==
  IF k > Len(c.prefixes) THEN w
  ELSE IF c.prefixes[k] >= Pow2(c.level + 1)
  THEN [w EXCEPT !.err = "prefix too long"]
  ELSE EvalPrefixes(
         EvalLevels([w EXCEPT !.seed = c.init_seed, !.ctrl = c.agg_id],
                    c, c.prefixes[k], 0),
         c, k + 1)

\* (mutant) the path-proof hash fed with the parent's vector alone
RECURSIVE PathTermsParentOnly(_, _, _, _)
PathTermsParentOnly(share, c, prefix, current_level) ==
  IF current_level >= c.level THEN <<>>
  ELSE
    LET node == prefix \div Pow2(c.level - current_level)
    IN <<share[<<node, current_level>>].y>>
         \o PathTermsParentOnly(share, c, prefix, current_level + 1)

\* what is fed to the path-proof hash for one prefix: one encoded vector per
\* level below c.level
RECURSIVE PathTerms(_, _, _, _)
PathTerms(share, c, prefix, current_level) ==
  IF current_level >= c.level THEN <<>>
  ELSE
    LET node == prefix \div Pow2(c.level - current_level)
        y == share[<<node, current_level>>].y
        y0 == share[<<2 * node, current_level + 1>>].y
        y1 == share[<<2 * node + 1, current_level + 1>>].y
    IN <<vec_sub(y, vec_add(y0, y1))>> \o PathTerms(share, c, prefix, current_level + 1)

RECURSIVE PathInput(_, _, _)
PathInput(share, c, k) ==
  IF k > Len(c.prefixes) THEN <<>>
  ELSE PathTerms(share, c, c.prefixes[k], 0) \o PathInput(share, c, k + 1)

IsUnique(prefixes) ==
  \A i, j \in 1 .. Len(prefixes) : prefixes[i] = prefixes[j] => i = j

\* (mutant) the result of Vidpf.eval with Aggregator 1's share of beta not
\* negated
EvalResultBetaNotNegated(agg_id, level, prefixes, c, w) ==
  IF w.err # "none" THEN [err |-> w.err]
  ELSE IF <<0, 0>> \notin DOMAIN w.share THEN [err |-> "KeyError"]
  ELSE
    [err |-> "none",
     beta_share |-> vec_add(w.share[<<0, 0>>].y, w.share[<<1, 0>>].y),
     out_share |-> [k \in 1 .. Len(prefixes) |->
                      IF agg_id = 0 THEN w.share[<<prefixes[k], level>>].y
                      ELSE vec_neg(w.share[<<prefixes[k], level>>].y)],
     proof |-> <<w.pi_proof, Sha3(<<"path", PathInput(w.share, c, 1)>>)>>]

\* what Vidpf.eval returns once the prefix tree share w is computed
EvalResult(agg_id, level, prefixes, c, w) ==
  IF w.err # "none" THEN [err |-> w.err]
  ELSE IF <<0, 0>> \notin DOMAIN w.share THEN [err |-> "KeyError"]
  ELSE
    LET path_proof == Sha3(<<"path", PathInput(w.share, c, 1)>>)
        out_share == [k \in 1 .. Len(prefixes) |->
                        IF agg_id = 0 THEN w.share[<<prefixes[k], level>>].y
                        ELSE vec_neg(w.share[<<prefixes[k], level>>].y)]
        y0 == w.share[<<0, 0>>].y
        y1 == w.share[<<1, 0>>].y
        beta_share == IF agg_id = 1 THEN vec_neg(vec_add(y0, y1))
                      ELSE vec_add(y0, y1)
    IN [err |-> "none", beta_share |-> beta_share, out_share |-> out_share,
        proof |-> <<w.pi_proof, path_proof>>]

\* Vidpf.eval
eval(agg_id, correction_words, cs_proofs, init_seed, level, prefixes, binder) ==
  IF agg_id >= SHARES THEN [err |-> "invalid aggregator ID"]
  ELSE IF level >= BITS THEN [err |-> "level too deep"]
  ELSE IF ~IsUnique(prefixes) THEN [err |-> "candidate prefixes are non-unique"]
  ELSE
    LET c == [agg_id |-> agg_id, correction_words |-> correction_words,
              cs_proofs |-> cs_proofs, init_seed |-> init_seed, level |-> level,
              prefixes |-> prefixes, binder |-> binder]
    IN EvalResult(agg_id, level, prefixes, c,
         EvalPrefixes([share |-> <<>>, seed |-> init_seed, ctrl |-> agg_id,
                       pi_proof |-> ROOT_PROOF, err |-> "none"], c, 1))

\* Vidpf.verify
verify(proof_0, proof_1) == proof_0 = proof_1

\* ------------------------------------------------------------- FLP

\* The FLP is used through its interface.  Two instances stand for the
\* circuits: "Count" (one field element that must be 0 or 1, no joint
\* randomness) and "BitSum" (a number given by two bits, each checked under
\* joint randomness, truncated to their sum).  A measurement element x is
\* proved to be a bit by one multiplication gate on the wires u = c * x and
\* v = x - 1, where c is 1 or a power of the joint randomness; the proof holds
\* the wire seeds and the coefficients of the gate polynomial h = f_u * f_v.
FlpKinds == {"Count", "BitSum"}

MEAS_LEN(kind) == IF kind = "Count" THEN 1 ELSE 2
OUTPUT_LEN(kind) == 1
JOINT_RAND_LEN(kind) == IF kind = "Count" THEN 0 ELSE 1
PROVE_RAND_LEN(kind) == 2 * MEAS_LEN(kind)
QUERY_RAND_LEN(kind) == 1
PROOF_LEN(kind) == 5 * MEAS_LEN(kind)
VERIFIER_LEN(kind) == 1 + 3 * MEAS_LEN(kind)

\* the weights the instance can encode
Weights(kind) == IF kind = "Count" THEN 0 .. 1 ELSE 0 .. 3

\* FLP.encode
encode(kind, weight) ==
  IF kind = "Count" THEN <<weight>> ELSE <<weight % 2, (weight \div 2) % 2>>

\* Field.decode_from_bit_vec
RECURSIVE decode_from_bit_vec(_)
decode_from_bit_vec(v) ==
  IF v = <<>> THEN 0 ELSE FAdd(Head(v), FMul(2, decode_from_bit_vec(Tail(v))))

\* FLP.truncate
truncate(kind, meas) ==
  IF kind = "Count" THEN meas ELSE <<decode_from_bit_vec(meas)>>

\* the inverse of a non-zero field element
FInv(a) == CHOOSE b \in FieldElems : FMul(a, b) = 1

RECURSIVE FPow(_, _)
FPow(a, n) == IF n = 0 THEN 1 ELSE FMul(a, FPow(a, n - 1))

\* the factor of the i-th gate's first wire
GateFactor(kind, joint_rand, i) ==
  IF JOINT_RAND_LEN(kind) = 0 THEN 1 ELSE FPow(joint_rand[1], i)

\* the proof of the i-th gate: wire seeds a_u, a_v and h's three coefficients
ProveGate(kind, meas, prove_rand, joint_rand, i) ==
  LET a_u == prove_rand[2 * i - 1]
      a_v == prove_rand[2 * i]
      du == FSub(FMul(GateFactor(kind, joint_rand, i), meas[i]), a_u)
      dv == FSub(FSub(meas[i], 1), a_v)
  IN <<a_u, a_v, FMul(a_u, a_v), FAdd(FMul(a_u, dv), FMul(a_v, du)), FMul(du, dv)>>

RECURSIVE ProveGates(_, _, _, _, _)
ProveGates(kind, meas, prove_rand, joint_rand, i) ==
  IF i > MEAS_LEN(kind) THEN <<>>
  ELSE ProveGate(kind, meas, prove_rand, joint_rand, i)
         \o ProveGates(kind, meas, prove_rand, joint_rand, i + 1)

\* FLP.prove
prove(kind, meas, prove_rand, joint_rand) ==
  ProveGates(kind, meas, prove_rand, joint_rand, 1)

\* what the query reads of the i-th gate: h(1), f_u(r), f_v(r), h(r)
QueryGate(kind, meas_share, proof_share, r, joint_rand, num_shares, i) ==
  LET a_u == proof_share[5 * i - 4]
      a_v == proof_share[5 * i - 3]
      h0 == proof_share[5 * i - 2]
      h1 == proof_share[5 * i - 1]
      h2 == proof_share[5 * i]
      u == FMul(GateFactor(kind, joint_rand, i), meas_share[i])
      v == FSub(meas_share[i], FInv(num_shares))
  IN <<FAdd(h0, FAdd(h1, h2)),
       FAdd(a_u, FMul(r, FSub(u, a_u))),
       FAdd(a_v, FMul(r, FSub(v, a_v))),
       FAdd(h0, FAdd(FMul(h1, r), FMul(h2, FMul(r, r))))>>

RECURSIVE QueryOut(_, _, _, _, _, _, _)
QueryOut(kind, meas_share, proof_share, r, joint_rand, num_shares, i) ==
  IF i > MEAS_LEN(kind) THEN 0
  ELSE FAdd(QueryGate(kind, meas_share, proof_share, r, joint_rand, num_shares, i)[1],
            QueryOut(kind, meas_share, proof_share, r, joint_rand, num_shares, i + 1))

RECURSIVE QueryWires(_, _, _, _, _, _, _)
QueryWires(kind, meas_share, proof_share, r, joint_rand, num_shares, i) ==
  IF i > MEAS_LEN(kind) THEN <<>>
  ELSE Tail(QueryGate(kind, meas_share, proof_share, r, joint_rand, num_shares, i))
         \o QueryWires(kind, meas_share, proof_share, r, joint_rand, num_shares, i + 1)

\* FLP.query
query(kind, meas_share, proof_share, query_rand, joint_rand, num_shares) ==
  <<QueryOut(kind, meas_share, proof_share, query_rand[1], joint_rand, num_shares, 1)>>
    \o QueryWires(kind, meas_share, proof_share, query_rand[1], joint_rand, num_shares, 1)

\* FLP.decide
decide(kind, verifier) ==
  /\ verifier[1] = 0
  /\ \A i \in 1 .. MEAS_LEN(kind) :
       FMul(verifier[3 * i - 1], verifier[3 * i]) = verifier[3 * i + 1]

\* ------------------------------------------------------------- Mastic: XOF

\* the usage codes of dst.py
USAGE_PROOF_SHARE == 2
USAGE_PROVE_RAND == 3
USAGE_QUERY_RAND == 4
USAGE_JOINT_RAND_PART == 5
USAGE_JOINT_RAND_SEED == 6
USAGE_JOINT_RAND == 7

\* dst(ctx, usage)
dst(ctx, usage) == <<usage, ctx>>

\* an absent optional value, a present one, and the value of a present one
None == <<>>
Some(x) == <<x>>
Get(o) == o[1]

\* a byte string (a sequence of numbers) as one number, for the toy XOF
RECURSIVE BytesNum(_)
BytesNum(b) == IF b = <<>> THEN 1 ELSE (3 * BytesNum(Tail(b)) + Head(b) + 1) % 251

\* XofTurboShake128.expand_into_vec
expand_into_vec(seed, d, binder, length) ==
  [i \in 1 .. length |-> XofByte(seed, d[1], BytesNum(<<d[2]>> \o binder), i) % FieldMod]

\* XofTurboShake128.derive_seed, injective: the seed is the triple it is derived from
derive_seed(seed, d, binder) == [seed |-> seed, dst |-> d, binder |-> binder]

\* the number a derived joint-randomness part stands for when it keys the XOF
PartNum(part) == (7 * part.seed + 5 * part.dst[1] + BytesNum(part.binder)) % 251

\* the number a derived joint-randomness seed stands for when it keys the XOF
SeedNum(seed) ==
  (BytesNum(<<PartNum(seed.binder[1]), PartNum(seed.binder[2])>>) + seed.dst[2]) % 251

\* front(length, vec) of common.py
front(length, vec) ==
  <<SubSeq(vec, 1, IF length < Len(vec) THEN length ELSE Len(vec)),
    SubSeq(vec, length + 1, Len(vec))>>

\* XofTurboShake128.SEED_SIZE, in units of one seed
SEED_SIZE == 1

\* Vidpf.encode_public_share
RECURSIVE encode_public_share(_)
encode_public_share(correction_words) ==
  IF correction_words = <<>> THEN <<>>
  ELSE LET cw == Head(correction_words)
       IN <<cw.seed_cw, cw.ctrl_cw[0], cw.ctrl_cw[1]>> \o cw.w_cw
            \o encode_public_share(Tail(correction_words))

\* the binder Mastic hands to the VIDPF: ctx and nonce
VidpfBinder(ctx, nonce) == 2 * ctx + nonce

\* Mastic.helper_proof_share
helper_proof_share(kind, ctx, seed) ==
  expand_into_vec(seed, dst(ctx, USAGE_PROOF_SHARE), <<>>, PROOF_LEN(kind))

\* Mastic.prove_rand
prove_rand(kind, ctx, seed) ==
  expand_into_vec(seed, dst(ctx, USAGE_PROVE_RAND), <<>>, PROVE_RAND_LEN(kind))

\* Mastic.joint_rand_part
joint_rand_part(ctx, agg_id, seed, key, correction_words, nonce) ==
  derive_seed(seed, dst(ctx, USAGE_JOINT_RAND_PART),
              <<agg_id, nonce, key>> \o encode_public_share(correction_words))

\* Mastic.joint_rand_seed
joint_rand_seed(ctx, parts) ==
  derive_seed(0, dst(ctx, USAGE_JOINT_RAND_SEED), parts)

\* Mastic.joint_rand
joint_rand(kind, ctx, seed) ==
  expand_into_vec(SeedNum(seed), dst(ctx, USAGE_JOINT_RAND), <<>>, JOINT_RAND_LEN(kind))

\* Mastic.query_rand
query_rand(kind, verify_key, ctx, nonce, level) ==
  expand_into_vec(verify_key, dst(ctx, USAGE_QUERY_RAND), <<nonce, level>>,
                  QUERY_RAND_LEN(kind))

\* Mastic.beta_share_from_seed
beta_share_from_seed(kind, ctx, seed) ==
  expand_into_vec(seed, dst(ctx, USAGE_PROOF_SHARE), <<>>, MEAS_LEN(kind))

\* ------------------------------------------------------------- Mastic

\* the number a seed-sized byte string keys the XOF with
SeedVal(b) == IF Len(b) = SEED_SIZE THEN b[1] ELSE SeedMod + BytesNum(b)

\* (mutant) the shares of the Leader taken as sums, not as differences
ShardSharesAdded(kind, ctx, g, beta, proof, leader_seed, helper_seed, beta_helper_seed, parts) ==
  LET helper_share == helper_proof_share(kind, ctx, SeedVal(helper_seed))
      leader_proof_share == vec_add(proof, helper_share)
      beta_helper_share == beta_share_from_seed(kind, ctx, SeedVal(beta_helper_seed))
      beta_leader_share == vec_add(beta, beta_helper_share)
  IN [err |-> "none",
      public_share |-> [correction_words |-> g.correction_words,
                        cs_proofs |-> g.cs_proofs,
                        joint_rand_parts |-> parts],
      input_shares |->
        <<[key |-> g.init_seed[0], proof_share |-> Some(leader_proof_share),
           seed |-> leader_seed, beta_share |-> beta_leader_share],
          [key |-> g.init_seed[1], proof_share |-> None,
           seed |-> Some(SeedVal(helper_seed)), beta_share |-> beta_helper_share]>>]

\* the VIDPF output, then the FLP proof and the weight, split into shares
ShardShares(kind, ctx, g, beta, proof, leader_seed, helper_seed, beta_helper_seed, parts) ==
  LET helper_share == helper_proof_share(kind, ctx, SeedVal(helper_seed))
      leader_proof_share == vec_sub(proof, helper_share)
      beta_helper_share == beta_share_from_seed(kind, ctx, SeedVal(beta_helper_seed))
      beta_leader_share == vec_sub(beta, beta_helper_share)
  IN [err |-> "none",
      public_share |-> [correction_words |-> g.correction_words,
                        cs_proofs |-> g.cs_proofs,
                        joint_rand_parts |-> parts],
      input_shares |->
        <<[key |-> g.init_seed[0], proof_share |-> Some(leader_proof_share),
           seed |-> leader_seed, beta_share |-> beta_leader_share],
          [key |-> g.init_seed[1], proof_share |-> None,
           seed |-> Some(SeedVal(helper_seed)), beta_share |-> beta_helper_share]>>]

\* shard_without_joint_rand from the FLP proof on: g is what Vidpf.gen returned
ShardWithoutJointRandProve(kind, ctx, beta, prove_rand_seed, helper_seed, beta_helper_seed, g) ==
  IF g.err # "none" THEN [err |-> g.err]
  ELSE ShardShares(kind, ctx, g, beta,
                   prove(kind, beta, prove_rand(kind, ctx, SeedVal(prove_rand_seed)), <<>>),
                   None, helper_seed, beta_helper_seed, None)

\* Mastic.shard_without_joint_rand
shard_without_joint_rand(kind, ctx, measurement, nonce, rand) ==
  LET r1 == front(RAND_SIZE, rand)
      r2 == front(SEED_SIZE, r1[2])
      r3 == front(SEED_SIZE, r2[2])
      r4 == front(SEED_SIZE, r3[2])
      beta == encode(kind, measurement.weight)
      beta_truncated == truncate(kind, beta)
  IN IF Len(r4[2]) # 0 THEN [err |-> "AssertionError"]
     ELSE ShardWithoutJointRandProve(kind, ctx, beta, r2[1], r3[1], r4[1],
            gen(measurement.alpha, beta_truncated, VidpfBinder(ctx, nonce), r1[1]))

\* shard_with_joint_rand from the joint randomness on: g is what Vidpf.gen
\* returned
ShardWithJointRandProve(kind, ctx, nonce, beta, prove_rand_seed, leader_seed, helper_seed, beta_helper_seed, g) ==
  LET joint_rand_parts ==
        <<joint_rand_part(ctx, 0, SeedVal(leader_seed), g.init_seed[0],
                          g.correction_words, nonce),
          joint_rand_part(ctx, 1, SeedVal(helper_seed), g.init_seed[1],
                          g.correction_words, nonce)>>
      jr == joint_rand(kind, ctx, joint_rand_seed(ctx, joint_rand_parts))
  IN IF g.err # "none" THEN [err |-> g.err]
     ELSE ShardShares(kind, ctx, g, beta,
                      prove(kind, beta, prove_rand(kind, ctx, SeedVal(prove_rand_seed)), jr),
                      Some(SeedVal(leader_seed)), helper_seed, beta_helper_seed,
                      Some(joint_rand_parts))

\* Mastic.shard_with_joint_rand
shard_with_joint_rand(kind, ctx, measurement, nonce, rand) ==
  LET r1 == front(RAND_SIZE, rand)
      r2 == front(SEED_SIZE, r1[2])
      r3 == front(SEED_SIZE, r2[2])
      r4 == front(SEED_SIZE, r3[2])
      r5 == front(SEED_SIZE, r4[2])
      beta == encode(kind, measurement.weight)
      beta_truncated == truncate(kind, beta)
  IN IF Len(r5[2]) # 0 THEN [err |-> "AssertionError"]
     ELSE ShardWithJointRandProve(kind, ctx, nonce, beta, r2[1], r3[1], r4[1], r5[1],
            gen(measurement.alpha, beta_truncated, VidpfBinder(ctx, nonce), r1[1]))

\* Mastic.shard
shard(kind, ctx, measurement, nonce, rand) ==
  IF JOINT_RAND_LEN(kind) > 0
  THEN shard_with_joint_rand(kind, ctx, measurement, nonce, rand)
  ELSE shard_without_joint_rand(kind, ctx, measurement, nonce, rand)

\* (mutant) the Helper's proof share expanded from another seed than its own
expand_input_share_OtherSeed(kind, ctx, agg_id, input_share) ==
  IF agg_id = 0
  THEN IF input_share.proof_share = None THEN [err |-> "AssertionError"]
       ELSE [err |-> "none", key |-> input_share.key,
             proof_share |-> Get(input_share.proof_share),
             seed |-> input_share.seed, beta_share |-> input_share.beta_share]
  ELSE IF input_share.seed = None THEN [err |-> "AssertionError"]
       ELSE [err |-> "none", key |-> input_share.key,
             proof_share |->
               helper_proof_share(kind, ctx, (Get(input_share.seed) + 1) % SeedMod),
             seed |-> input_share.seed, beta_share |-> input_share.beta_share]

\* Mastic.expand_input_share
expand_input_share(kind, ctx, agg_id, input_share) ==
  IF agg_id = 0
  THEN IF input_share.proof_share = None THEN [err |-> "AssertionError"]
       ELSE [err |-> "none", key |-> input_share.key,
             proof_share |-> Get(input_share.proof_share),
             seed |-> input_share.seed, beta_share |-> input_share.beta_share]
  ELSE IF input_share.seed = None THEN [err |-> "AssertionError"]
       ELSE [err |-> "none", key |-> input_share.key,
             proof_share |-> helper_proof_share(kind, ctx, Get(input_share.seed)),
             seed |-> input_share.seed, beta_share |-> input_share.beta_share]

\* the output shares of the prefixes, concatenated into one aggregatable vector
RECURSIVE TruncateOutShare(_, _)
TruncateOutShare(kind, out_share) ==
  IF out_share = <<>> THEN <<>>
  ELSE <<Head(out_share)[1]>> \o truncate(kind, Tail(Head(out_share)))
         \o TruncateOutShare(kind, Tail(out_share))

\* prep_init's result once the VIDPF is evaluated and the FLP queried
PrepInitResult(kind, r, parts, joint_rand_part_, joint_rand_seed_, verifier_share) ==
  [err |-> "none",
   prep_state |-> [truncated_out_share |-> TruncateOutShare(kind, r.out_share),
                   joint_rand_seed |-> joint_rand_seed_],
   prep_share |-> [eval_proof |-> r.proof,
                   verifier_share |-> verifier_share,
                   joint_rand_part |-> joint_rand_part_],
   joint_rand_parts |-> parts]

\* prep_init from the FLP query on: x is the expanded input share and r what
\* Vidpf.eval returned
PrepInitQuery(kind, verify_key, ctx, agg_id, agg_param, nonce, public_share, x, r) ==
  LET qr == query_rand(kind, verify_key, ctx, nonce, agg_param.level)
      part == joint_rand_part(ctx, agg_id, Get(x.seed), x.key,
                              public_share.correction_words, nonce)
      parts == [Get(public_share.joint_rand_parts) EXCEPT ![agg_id + 1] = part]
      jr_seed == joint_rand_seed(ctx, parts)
  IN IF r.err # "none" THEN [err |-> r.err]
     ELSE IF ~agg_param.do_weight_check
     THEN PrepInitResult(kind, r, public_share.joint_rand_parts, None, None, None)
     ELSE IF JOINT_RAND_LEN(kind) = 0
     THEN PrepInitResult(kind, r, public_share.joint_rand_parts, None, None,
            Some(query(kind, x.beta_share, x.proof_share, qr, <<>>, 2)))
     ELSE IF x.seed = None \/ public_share.joint_rand_parts = None
     THEN [err |-> "AssertionError"]
     ELSE PrepInitResult(kind, r, Some(parts), Some(part), Some(jr_seed),
            Some(query(kind, x.beta_share, x.proof_share, qr,
                       joint_rand(kind, ctx, jr_seed), 2)))

\* prep_init from the VIDPF evaluation on: x is the expanded input share
PrepInitEval(kind, verify_key, ctx, agg_id, agg_param, nonce, public_share, x) ==
  IF x.err # "none" THEN [err |-> x.err]
  ELSE PrepInitQuery(kind, verify_key, ctx, agg_id, agg_param, nonce, public_share, x,
         eval(agg_id, public_share.correction_words, public_share.cs_proofs, x.key,
              agg_param.level, agg_param.prefixes, VidpfBinder(ctx, nonce)))

\* Mastic.prep_init; joint_rand_parts of the result is the caller's list of
\* parts after the call, which the call writes its own part into
prep_init(kind, verify_key, ctx, agg_id, agg_param, nonce, public_share, input_share) ==
  PrepInitEval(kind, verify_key, ctx, agg_id, agg_param, nonce, public_share,
               expand_input_share(kind, ctx, agg_id, input_share))

\* (mutant) the seed derived from the first part alone
CombineSeedFirstPart(ctx, prep_shares) ==
  [err |-> "none",
   msg |-> Some(joint_rand_seed(ctx, <<Get(prep_shares[1].joint_rand_part),
                                      Get(prep_shares[1].joint_rand_part)>>))]

\* the joint randomness confirmation: the seed of the two parts
CombineSeed(ctx, prep_shares) ==
  [err |-> "none",
   msg |-> Some(joint_rand_seed(ctx, <<Get(prep_shares[1].joint_rand_part),
                                      Get(prep_shares[2].joint_rand_part)>>))]

\* (mutant) the checks of the FLP, the parts looked at before the decision
CombineWeightCheckPartsFirst(kind, ctx, prep_shares) ==
  IF prep_shares[1].verifier_share = None \/ prep_shares[2].verifier_share = None
  THEN [err |-> "expected FLP verifier shares", msg |-> None]
  ELSE IF JOINT_RAND_LEN(kind) > 0 /\
          (prep_shares[1].joint_rand_part = None \/ prep_shares[2].joint_rand_part = None)
  THEN [err |-> "expected FLP joint randomness parts", msg |-> None]
  ELSE IF JOINT_RAND_LEN(kind) > 0 THEN CombineSeed(ctx, prep_shares)
  ELSE IF ~decide(kind, vec_add(Get(prep_shares[1].verifier_share),
                                Get(prep_shares[2].verifier_share)))
  THEN [err |-> "FLP verification failed", msg |-> None]
  ELSE [err |-> "none", msg |-> None]

\* the checks of the FLP: the verifier shares, the decision, the parts
CombineWeightCheck(kind, ctx, prep_shares) ==
  IF prep_shares[1].verifier_share = None \/ prep_shares[2].verifier_share = None
  THEN [err |-> "expected FLP verifier shares", msg |-> None]
  ELSE IF ~decide(kind, vec_add(Get(prep_shares[1].verifier_share),
                                Get(prep_shares[2].verifier_share)))
  THEN [err |-> "FLP verification failed", msg |-> None]
  ELSE IF JOINT_RAND_LEN(kind) = 0
  THEN [err |-> "none", msg |-> None]
  ELSE IF prep_shares[1].joint_rand_part = None \/ prep_shares[2].joint_rand_part = None
  THEN [err |-> "expected FLP joint randomness parts", msg |-> None]
  ELSE CombineSeed(ctx, prep_shares)

\* (mutant) the eval proofs compared only under do_weight_check
prep_shares_to_prep_WeightFirst(kind, ctx, agg_param, prep_shares) ==
  IF Len(prep_shares) # 2
  THEN [err |-> "unexpected number of prep shares", msg |-> None]
  ELSE IF ~agg_param.do_weight_check
  THEN [err |-> "none", msg |-> None]
  ELSE IF prep_shares[1].eval_proof # prep_shares[2].eval_proof
  THEN [err |-> "VIDPF verification failed", msg |-> None]
  ELSE CombineWeightCheck(kind, ctx, prep_shares)

\* Mastic.prep_shares_to_prep
prep_shares_to_prep(kind, ctx, agg_param, prep_shares) ==
  IF Len(prep_shares) # 2
  THEN [err |-> "unexpected number of prep shares", msg |-> None]
  ELSE IF prep_shares[1].eval_proof # prep_shares[2].eval_proof
  THEN [err |-> "VIDPF verification failed", msg |-> None]
  ELSE IF ~agg_param.do_weight_check
  THEN [err |-> "none", msg |-> None]
  ELSE CombineWeightCheck(kind, ctx, prep_shares)

\* (mutant) the prep message compared with nothing
prep_next_NoCompare(ctx, prep_state, prep_msg) ==
  IF prep_state.joint_rand_seed # None /\ prep_msg = None
  THEN [err |-> "expected joint rand confirmation", out_share |-> <<>>]
  ELSE [err |-> "none", out_share |-> prep_state.truncated_out_share]

\* Mastic.prep_next
prep_next(ctx, prep_state, prep_msg) ==
  IF prep_state.joint_rand_seed # None /\ prep_msg = None
  THEN [err |-> "expected joint rand confirmation", out_share |-> <<>>]
  ELSE IF prep_state.joint_rand_seed # None /\ prep_msg # prep_state.joint_rand_seed
  THEN [err |-> "joint rand confirmation failed", out_share |-> <<>>]
  ELSE [err |-> "none", out_share |-> prep_state.truncated_out_share]

\* ------------------------------------------------------------- state

VARIABLES
  dpc,      \* main(): where the driver stands
  dsetup,   \* main(): beta, binder, level and prefixes, fixed before the loop
  dreport,  \* main(): the measurement and what gen returned for it
  dres,     \* main(): what eval returned to the Aggregators done so far
  dout,     \* main(): out, the aggregated output
  dhits,    \* per prefix, how many measurements so far had that prefix
  dn,       \* main(): how many measurements were processed
  vpc,      \* is_valid: whether a call has returned
  vprev,    \* is_valid: previous_agg_params
  vparam,   \* is_valid: agg_param of the last call
  vres,     \* is_valid: what the last call returned
  mpc,      \* Mastic: how far the report is (start, sharded, prep)
  mkind,    \* Mastic: the FLP instance
  mreport,  \* Mastic: ctx, nonce, verify_key, measurement and rand of the report
  mpub,     \* Mastic: the public share, as the caller of prep_init holds it
  minp,     \* Mastic: the two input shares
  mtamper,  \* Mastic: the value of the report changed after sharding, if any
  mparam,   \* Mastic: the aggregation parameter
  mprep,    \* Mastic: per Aggregator, what prep_init returned
  mmsg,     \* Mastic: what prep_shares_to_prep returned
  mout,     \* Mastic: per Aggregator, what prep_next returned
  ppc,      \* prep_shares_to_prep, prep_next: which call has returned
  pkind,    \* prep_shares_to_prep: the FLP instance
  pparam,   \* prep_shares_to_prep: agg_param
  pshares,  \* prep_shares_to_prep: prep_shares
  pres,     \* prep_shares_to_prep: what the call returned
  pstate,   \* prep_next: prep_state
  pmsg,     \* prep_next: prep_msg
  pnext,    \* prep_next: what the call returned
  fpc,      \* a single call of a function: whether it has returned
  fargs,    \* a single call of a function: its arguments
  fres      \* a single call of a function: what it returned

dvars == <<dpc, dsetup, dreport, dres, dout, dhits, dn>>
vvars == <<vpc, vprev, vparam, vres>>
mvars == <<mpc, mkind, mreport, mpub, minp, mtamper, mparam, mprep, mmsg, mout>>
pvars == <<ppc, pkind, pparam, pshares, pres, pstate, pmsg, pnext>>
fvars == <<fpc, fargs, fres>>
vars == <<dvars, vvars, mvars, pvars, fvars>>

\* the parts of the state the driver main() does not touch
DrvFrame == <<vvars, mvars, pvars, fvars>>
\* the parts of the state the callers of is_valid do not touch
ValidFrame == <<dvars, mvars, pvars, fvars>>
\* the parts of the state the handling of a Mastic report does not touch
MasticFrame == <<dvars, vvars, pvars, fvars>>
\* the parts of the state the callers of the two prep functions do not touch
PrepFrame == <<dvars, vvars, mvars, fvars>>
\* the parts of the state a single call of a function does not touch
CallFrame == <<dvars, vvars, mvars, pvars>>

DrvIdle ==
  /\ dpc = "idle"
  /\ dsetup = <<>>
  /\ dreport = <<>>
  /\ dres = <<>>
  /\ dout = <<>>
  /\ dhits = <<>>
  /\ dn = 0

ValidIdle ==
  /\ vpc = "idle"
  /\ vprev = <<>>
  /\ vparam = <<>>
  /\ vres = FALSE

MasticIdle ==
  /\ mpc = "idle"
  /\ mkind = ""
  /\ mreport = <<>>
  /\ mpub = <<>>
  /\ minp = <<>>
  /\ mtamper = <<>>
  /\ mparam = <<>>
  /\ mprep = <<>>
  /\ mmsg = <<>>
  /\ mout = <<>>

PrepIdle ==
  /\ ppc = "idle"
  /\ pkind = ""
  /\ pparam = <<>>
  /\ pshares = <<>>
  /\ pres = <<>>
  /\ pstate = <<>>
  /\ pmsg = <<>>
  /\ pnext = <<>>

CallIdle ==
  /\ fpc = "idle"
  /\ fargs = <<>>
  /\ fres = <<>>

\* ------------------------------------------------------------- main()

\* the ordered lists of unique candidate prefixes of level + 1 bits
PrefixLists(level) ==
  {p \in UNION {[1 .. n -> 0 .. (Pow2(level + 1) - 1)] : n \in 1 .. MaxPrefixes} :
     IsUnique(p)}

\* what gen_rand(RAND_SIZE) returns: two keys, four pairs of them
GenRand == {r \in [1 .. RAND_SIZE -> Seeds] : r[1] < 4 /\ r[2] = (5 * r[1] + 3) % SeedMod}

Betas == [1 .. VALUE_LEN -> FieldElems]

\* the (level + 1)-bit prefix of alpha
PrefixOf(alpha, level) == alpha \div Pow2(BITS - level - 1)

DrvInit ==
  /\ dpc = "setup"
  /\ dsetup = <<>>
  /\ dreport = <<>>
  /\ dres = <<>>
  /\ dout = <<>>
  /\ dhits = <<>>
  /\ dn = 0
  /\ ValidIdle
  /\ MasticIdle
  /\ PrepIdle
  /\ CallIdle

\* binder, beta, prefixes, level and the zeroed out
DrvSetup ==
  /\ dpc = "setup"
  /\ \E beta \in Betas, binder \in Binders, level \in 0 .. (BITS - 1) :
       \E prefixes \in PrefixLists(level) :
         /\ dsetup' = [beta |-> beta, binder |-> binder, level |-> level,
                       prefixes |-> prefixes]
         /\ dout' = [k \in 1 .. Len(prefixes) |-> zeros(VALUE_LEN)]
         /\ dhits' = [k \in 1 .. Len(prefixes) |-> 0]
  /\ dpc' = "gen"
  /\ UNCHANGED <<dreport, dres, dn, DrvFrame>>

\* the head of the measurement loop: gen_rand and vidpf.gen
DrvGen ==
  /\ dpc = "gen"
  /\ dn < MaxReports
  /\ \E alpha \in 0 .. (Pow2(BITS) - 1), rand \in GenRand :
       \E g \in {gen(alpha, dsetup.beta, dsetup.binder, rand)} :
          /\ dreport' = [alpha |-> alpha, init_seed |-> g.init_seed,
                         correction_words |-> g.correction_words,
                         cs_proofs |-> g.cs_proofs]
          /\ dhits' = [k \in 1 .. Len(dsetup.prefixes) |->
                         IF dsetup.prefixes[k] = PrefixOf(alpha, dsetup.level)
                         THEN dhits[k] + 1 ELSE dhits[k]]
  /\ dres' = <<>>
  /\ dpc' = "eval"
  /\ UNCHANGED <<dsetup, dout, dn, DrvFrame>>

\* one pass of "for agg_id in range(vidpf.SHARES)": eval, then out += out_share
DrvEval ==
  /\ dpc = "eval"
  /\ \E agg_id \in {Len(dres)} :
     \E r \in {eval(agg_id, dreport.correction_words, dreport.cs_proofs,
                    dreport.init_seed[agg_id], dsetup.level, dsetup.prefixes,
                    dsetup.binder)} :
        /\ dres' = Append(dres, r)
        /\ dout' = [k \in 1 .. Len(dsetup.prefixes) |->
                      vec_add(dout[k], r.out_share[k])]
        /\ dpc' = IF agg_id + 1 = SHARES THEN "verify" ELSE "eval"
  /\ UNCHANGED <<dsetup, dreport, dhits, dn, DrvFrame>>

\* assert vidpf.verify(proofs[0], proofs[1]), and on to the next measurement
DrvVerify ==
  /\ dpc = "verify"
  /\ dpc' = IF verify(dres[1].proof, dres[2].proof) THEN "gen" ELSE "AssertionError"
  /\ dn' = dn + 1
  /\ dreport' = <<>>
  /\ dres' = <<>>
  /\ UNCHANGED <<dsetup, dout, dhits, DrvFrame>>

DrvNext == DrvSetup \/ DrvGen \/ DrvEval \/ DrvVerify

\* the driver main() of vidpf.py
SpecVidpf == DrvInit /\ [][DrvNext]_vars

\* ------------------------------------------------------------- VIDPF claims

\* the sum of the two Aggregators' k-th output share of the current report
OutSum(k) == vec_add(dres[1].out_share[k], dres[2].out_share[k])

\* C1: once both Aggregators have evaluated a report, both evaluations have
\* returned normally and the sum of their k-th output shares is beta when
\* prefixes[k] is the (level+1)-bit prefix of alpha and the zero vector
\* otherwise; between measurements the driver's out[k] is beta times the number
\* of measurements seen so far whose prefix is prefixes[k].
VidpfCorrectness ==
  /\ dpc = "verify" =>
       /\ dres[1].err = "none" /\ dres[2].err = "none"
       /\ \A k \in 1 .. Len(dsetup.prefixes) :
            OutSum(k) = IF dsetup.prefixes[k] = PrefixOf(dreport.alpha, dsetup.level)
                        THEN dsetup.beta ELSE zeros(VALUE_LEN)
  /\ dpc = "gen" =>
       \A k \in 1 .. Len(dsetup.prefixes) :
         dout[k] = [j \in 1 .. VALUE_LEN |-> FMul(dhits[k], dsetup.beta[j])]

\* a second report evaluated at the last level with one candidate on alpha's
\* path and one off it, for a non-zero beta
VidpfCorrectnessWitness ==
  /\ dpc = "verify"
  /\ dn = 1
  /\ dsetup.level = BITS - 1
  /\ Len(dsetup.prefixes) = 2
  /\ dsetup.prefixes[2] = PrefixOf(dreport.alpha, dsetup.level)
  /\ dsetup.beta # zeros(VALUE_LEN)
  /\ OutSum(2) = dsetup.beta
  /\ OutSum(1) = zeros(VALUE_LEN)
  /\ dres[1].out_share[2] # dsetup.beta

\* C3: for an honest report the proof (pi_proof || path_proof) eval returns to
\* Aggregator 0 equals the one it returns to Aggregator 1, so the driver's
\* assertion of Vidpf.verify never fails.
EvalProofsAgree ==
  /\ dpc = "verify" => dres[1].proof = dres[2].proof
  /\ dpc # "AssertionError"

\* both Aggregators hold equal proofs for two candidates below the first level,
\* from different keys
EvalProofsAgreeWitness ==
  /\ dpc = "verify"
  /\ dsetup.level >= 1
  /\ Len(dsetup.prefixes) = 2
  /\ dreport.init_seed[0] # dreport.init_seed[1]
  /\ dres[1].proof = dres[2].proof
  /\ dres[1].out_share # dres[2].out_share

\* ------------------------------------------------------------- Mastic.is_valid

\* (mutant) is_valid accepting a level equal to the last one
is_valid_GeqLevel(agg_param, previous_agg_params) ==
  LET n == Len(previous_agg_params)
      weight_checked ==
        \/ agg_param.do_weight_check /\ n = 0
        \/ ~agg_param.do_weight_check
             /\ \E i \in 1 .. n : previous_agg_params[i].do_weight_check
      level_increased ==
        n = 0 \/ agg_param.level >= previous_agg_params[n].level
  IN weight_checked /\ level_increased

\* (mutant) is_valid forgetting that a later parameter must not check the weight
is_valid_Recheck(agg_param, previous_agg_params) ==
  LET n == Len(previous_agg_params)
      weight_checked ==
        \/ agg_param.do_weight_check
        \/ \E i \in 1 .. n : previous_agg_params[i].do_weight_check
      level_increased ==
        n = 0 \/ agg_param.level > previous_agg_params[n].level
  IN weight_checked /\ level_increased

\* Mastic.is_valid
is_valid(agg_param, previous_agg_params) ==
  LET n == Len(previous_agg_params)
      weight_checked ==
        \/ agg_param.do_weight_check /\ n = 0
        \/ ~agg_param.do_weight_check
             /\ \E i \in 1 .. n : previous_agg_params[i].do_weight_check
      level_increased ==
        n = 0 \/ agg_param.level > previous_agg_params[n].level
  IN weight_checked /\ level_increased

\* the longest list of previous aggregation parameters handed to is_valid
MaxPrev == 3

\* the aggregation parameters is_valid is called with: it reads the level and
\* do_weight_check, and is handed the prefixes
ValidityParams ==
  [level : 0 .. BITS, prefixes : {<<0>>, <<0, 1>>}, do_weight_check : BOOLEAN]

\* is_valid called on a list of previous parameters of any content
ValidInit ==
  /\ vpc = "idle"
  /\ vprev \in UNION {[1 .. n -> ValidityParams] : n \in 0 .. MaxPrev}
  /\ vparam = <<>>
  /\ vres = FALSE
  /\ DrvIdle
  /\ MasticIdle
  /\ PrepIdle
  /\ CallIdle

ValidCall ==
  /\ \E p \in ValidityParams :
       /\ vparam' = p
       /\ vres' = is_valid(p, vprev)
  /\ vpc' = "returned"
  /\ UNCHANGED <<vprev, ValidFrame>>

ValidNext == ValidCall

\* is_valid as a function of its two arguments
SpecIsValid == ValidInit /\ [][ValidNext]_vars

\* a caller that keeps the list of the parameters is_valid accepted
SeqInit == ValidIdle /\ DrvIdle /\ MasticIdle /\ PrepIdle /\ CallIdle

\* a parameter is_valid accepts is appended to the list
SeqAccept ==
  /\ \E p \in ValidityParams :
       /\ is_valid(p, vprev) = TRUE
       /\ vparam' = p
       /\ vprev' = Append(vprev, p)
  /\ vres' = TRUE
  /\ vpc' = "returned"
  /\ UNCHANGED ValidFrame

\* a parameter is_valid rejects is dropped
SeqReject ==
  /\ \E p \in ValidityParams :
       /\ is_valid(p, vprev) = FALSE
       /\ vparam' = p
  /\ vres' = FALSE
  /\ vpc' = "returned"
  /\ UNCHANGED <<vprev, ValidFrame>>

SeqNext == SeqAccept \/ SeqReject

SpecAggSeq == SeqInit /\ [][SeqNext]_vars

\* ------------------------------------------------------------- is_valid claims

\* do_weight_check is true exactly once in the sequence
WeightCheckedOnce(seq) ==
  Cardinality({i \in 1 .. Len(seq) : seq[i].do_weight_check}) = 1

\* the level of p is strictly greater than every level of prev
LevelAboveAll(p, prev) == \A i \in 1 .. Len(prev) : p.level > prev[i].level

\* the levels of the sequence are strictly increasing
StrictlyIncreasing(seq) ==
  \A i, j \in 1 .. Len(seq) : i < j => seq[i].level < seq[j].level

\* the two rules of the aggregation-parameter sequence, for prev followed by p
SequenceRules(p, prev) ==
  WeightCheckedOnce(Append(prev, p)) /\ LevelAboveAll(p, prev)

\* every element of the list was accepted by is_valid after the ones before it
AcceptedSeq(seq) ==
  \A i \in 1 .. Len(seq) : is_valid(seq[i], SubSeq(seq, 1, i - 1))

\* C4 (as stated): for previous parameters of any content, is_valid returns
\* true exactly when do_weight_check is true exactly once in prev followed by p
\* and the level of p is above every level of prev.
IsValidIffRulesAnyPrev ==
  vpc = "returned" => (vres <=> SequenceRules(vparam, vprev))

\* C4 (amended): when every element of prev was itself accepted by is_valid
\* after its predecessors (or prev is empty), is_valid returns true exactly
\* when do_weight_check is true exactly once in prev followed by p and the
\* level of p is above every level of prev.
IsValidIffRules ==
  (vpc = "returned" /\ AcceptedSeq(vprev)) =>
    (vres <=> SequenceRules(vparam, vprev))

\* is_valid accepted a third parameter after two accepted ones
IsValidIffRulesWitness ==
  /\ vpc = "returned"
  /\ Len(vprev) = 2
  /\ AcceptedSeq(vprev)
  /\ vres
  /\ SequenceRules(vparam, vprev)

\* C5: a sequence grown from the empty one by appending only what is_valid
\* accepts has strictly increasing levels and, once not empty, exactly one
\* parameter with do_weight_check; a parameter with do_weight_check is rejected
\* when the sequence already holds one.
AcceptedSequenceRules ==
  /\ StrictlyIncreasing(vprev)
  /\ vprev # <<>> => WeightCheckedOnce(vprev)
  /\ (vpc = "returned" /\ vres /\ vparam.do_weight_check) => Len(vprev) = 1

\* after two accepted parameters, one more at a higher level that asks for the
\* weight check again was rejected
AcceptedSequenceRulesWitness ==
  /\ Len(vprev) = 2
  /\ vpc = "returned"
  /\ ~vres
  /\ vparam.do_weight_check
  /\ vparam.level > vprev[2].level

\* ------------------------------------------------------------- a Mastic report

MaxRands == 2

Ctxs == {0}
VerifyKeys == {1}

\* the nonce of the k-th report
NonceOf(k) == k % 2

\* the randomness shard consumes: the VIDPF's, then one seed each for the
\* prover, the Leader (with joint randomness), the Helper and the weight share
ShardRandLen(kind) ==
  RAND_SIZE + 3 * SEED_SIZE + (IF JOINT_RAND_LEN(kind) > 0 THEN SEED_SIZE ELSE 0)

\* the rand of the k-th report
ShardRand(kind, k) ==
  [i \in 1 .. ShardRandLen(kind) |-> (k * i + (i \div 2) + k) % SeedMod]

\* the candidate prefixes are handed over in ascending order
IsAscending(p) == \A i \in 1 .. (Len(p) - 1) : p[i] < p[i + 1]

\* the aggregation parameters the Collector may ask for
MasticParams ==
  UNION {{[level |-> l, prefixes |-> p, do_weight_check |-> d] :
            p \in {q \in PrefixLists(l) : IsAscending(q)}, d \in BOOLEAN} :
           l \in 0 .. (BITS - 1)}

MasticInit ==
  /\ mpc = "start"
  /\ mkind \in FlpKinds
  /\ mreport = <<>>
  /\ mpub = <<>>
  /\ minp = <<>>
  /\ mtamper = <<>>
  /\ mparam = <<>>
  /\ mprep = <<>>
  /\ mmsg = <<>>
  /\ mout = <<>>
  /\ DrvIdle
  /\ ValidIdle
  /\ PrepIdle
  /\ CallIdle

\* the Client shards a measurement
MasticShard ==
  /\ mpc = "start"
  /\ \E ctx \in Ctxs, verify_key \in VerifyKeys, k \in 1 .. MaxRands,
        alpha \in 0 .. (Pow2(BITS) - 1), weight \in Weights(mkind) :
       \E sh \in {shard(mkind, ctx, [alpha |-> alpha, weight |-> weight],
                         NonceOf(k), ShardRand(mkind, k))} :
         /\ sh.err = "none"
         /\ mreport' = [ctx |-> ctx, nonce |-> NonceOf(k), verify_key |-> verify_key,
                        alpha |-> alpha, weight |-> weight,
                        rand |-> ShardRand(mkind, k)]
         /\ mpub' = sh.public_share
         /\ minp' = sh.input_shares
  /\ mpc' = "sharded"
  /\ UNCHANGED <<mkind, mtamper, mparam, mprep, mmsg, mout, MasticFrame>>

\* the Aggregators are handed the aggregation parameter
MasticStartPrep ==
  /\ mpc = "sharded"
  /\ \E p \in MasticParams : mparam' = p
  /\ mprep' = <<None, None>>
  /\ mmsg' = None
  /\ mout' = <<None, None>>
  /\ mpc' = "prep"
  /\ UNCHANGED <<mkind, mreport, mpub, minp, mtamper, MasticFrame>>

\* Aggregator agg_id runs prep_init on the public share and its input share;
\* both Aggregators are handed the same public share object
MasticPrepInit(agg_id) ==
  /\ mpc = "prep"
  /\ mprep[agg_id + 1] = None
  /\ \E r \in {prep_init(mkind, mreport.verify_key, mreport.ctx, agg_id, mparam,
                         mreport.nonce, mpub, minp[agg_id + 1])} :
       IF r.err = "none"
       THEN /\ mprep' = [mprep EXCEPT ![agg_id + 1] =
                           Some([err |-> "none", prep_state |-> r.prep_state,
                                 prep_share |-> r.prep_share])]
            /\ mpub' = [mpub EXCEPT !.joint_rand_parts = r.joint_rand_parts]
       ELSE /\ mprep' = [mprep EXCEPT ![agg_id + 1] = Some(r)]
            /\ mpub' = mpub
  /\ UNCHANGED <<mpc, mkind, mreport, minp, mtamper, mparam, mmsg, mout, MasticFrame>>

\* the prep shares of the two Aggregators are combined
MasticPrepSharesToPrep ==
  /\ mpc = "prep"
  /\ mmsg = None
  /\ mprep[1] # None /\ mprep[2] # None
  /\ Get(mprep[1]).err = "none" /\ Get(mprep[2]).err = "none"
  /\ mmsg' = Some(prep_shares_to_prep(mkind, mreport.ctx, mparam,
                    <<Get(mprep[1]).prep_share, Get(mprep[2]).prep_share>>))
  /\ UNCHANGED <<mpc, mkind, mreport, mpub, minp, mtamper, mparam, mprep, mout,
                 MasticFrame>>

\* Aggregator agg_id runs prep_next on the prep message
MasticPrepNext(agg_id) ==
  /\ mpc = "prep"
  /\ mmsg # None
  /\ Get(mmsg).err = "none"
  /\ mout[agg_id + 1] = None
  /\ mout' = [mout EXCEPT ![agg_id + 1] =
                Some(prep_next(mreport.ctx, Get(mprep[agg_id + 1]).prep_state,
                               Get(mmsg).msg))]
  /\ UNCHANGED <<mpc, mkind, mreport, mpub, minp, mtamper, mparam, mprep, mmsg,
                 MasticFrame>>

MasticNext ==
  \/ MasticShard
  \/ MasticStartPrep
  \/ \E agg_id \in 0 .. (SHARES - 1) : MasticPrepInit(agg_id)
  \/ MasticPrepSharesToPrep
  \/ \E agg_id \in 0 .. (SHARES - 1) : MasticPrepNext(agg_id)

\* an honest report, from the Client to the output shares
Spec == MasticInit /\ [][MasticNext]_vars

\* ------------------------------------------------------------- a tampered report

\* the single values of a report that may be changed after sharding: what is
\* changed, in which correction word, proof or share, and which element of it
Tampers(kind) ==
  {<<"seed_cw", l, 0>> : l \in 1 .. BITS}
    \cup {<<"ctrl_cw", l, b>> : l \in 1 .. BITS, b \in 0 .. 1}
    \cup {<<"w_cw", l, j>> : l \in 1 .. BITS, j \in 1 .. VALUE_LEN}
    \cup {<<"cs_proof", l, 0>> : l \in 1 .. BITS}
    \cup {<<"key", a, 0>> : a \in 1 .. SHARES}
    \cup {<<"beta_share", a, j>> : a \in 1 .. SHARES, j \in 1 .. MEAS_LEN(kind)}
    \cup {<<"joint_rand_part", a, 0>> : a \in 1 .. (SHARES * JOINT_RAND_LEN(kind))}

\* the correction word with one of its values changed
TamperCw(cw, t) ==
  IF t[1] = "seed_cw" THEN [cw EXCEPT !.seed_cw = xor(@, 1)]
  ELSE IF t[1] = "ctrl_cw" THEN [cw EXCEPT !.ctrl_cw[t[3]] = 1 - @]
  ELSE [cw EXCEPT !.w_cw[t[3]] = FAdd(@, 1)]

\* the public share with the value t names changed
TamperPublicShare(pub, t) ==
  IF t[1] \in {"seed_cw", "ctrl_cw", "w_cw"}
  THEN [pub EXCEPT !.correction_words[t[2]] = TamperCw(@, t)]
  ELSE IF t[1] = "cs_proof"
  THEN [pub EXCEPT !.cs_proofs[t[2]] = xorDigest(@, Sha3(<<"tamper">>))]
  ELSE IF t[1] = "joint_rand_part"
  THEN [pub EXCEPT !.joint_rand_parts = Some([Get(@) EXCEPT ![t[2]].seed = xor(@, 1)])]
  ELSE pub

\* the input shares with the value t names changed
TamperInputShares(inp, t) ==
  IF t[1] = "key" THEN [inp EXCEPT ![t[2]].key = xor(@, 1)]
  ELSE IF t[1] = "beta_share" THEN [inp EXCEPT ![t[2]].beta_share[t[3]] = FAdd(@, 1)]
  ELSE inp

\* one value of the report is changed between the Client and the Aggregators
MasticTamper ==
  /\ mpc = "sharded"
  /\ mtamper = <<>>
  /\ \E t \in Tampers(mkind) :
       /\ mtamper' = t
       /\ mpub' = TamperPublicShare(mpub, t)
       /\ minp' = TamperInputShares(minp, t)
  /\ UNCHANGED <<mpc, mkind, mreport, mparam, mprep, mmsg, mout, MasticFrame>>

TamperNext ==
  \/ MasticNext
  \/ MasticTamper

\* a report that is possibly tampered with on its way to the Aggregators
SpecTamper == MasticInit /\ [][TamperNext]_vars

\* ------------------------------------------------------------- prep_shares_to_prep, prep_next

\* the longest list of prep shares handed to prep_shares_to_prep
MaxPrepShares == 3

\* two eval proofs: those of one key evaluated at the prefix 0 and at the prefix 1
EvalProofs ==
  LET g == gen(0, <<1>>, 0, <<1, 2>>)
  IN {eval(0, g.correction_words, g.cs_proofs, g.init_seed[0], 0, <<p>>, 0).proof :
        p \in 0 .. 1}

\* verifier shares: all zero but for the first gate, whose f_u(r), f_v(r), h(r)
\* are those of a share of an accepted or of a rejected verifier
VerifierShares(kind) ==
  {[i \in 1 .. VERIFIER_LEN(kind) |-> IF i \in 2 .. 4 THEN t[i - 1] ELSE 0] :
     t \in {<<0, 0, 0>>, <<1, 2, 2>>, <<1, 2, 3>>}}

\* two joint randomness parts, of the Leader and of the Helper
JointRandParts ==
  {joint_rand_part(0, a, a + 1, a + 3, <<>>, 0) : a \in 0 .. (SHARES - 1)}

\* the joint randomness seeds of two such parts
JointRandSeeds ==
  {joint_rand_seed(0, <<p, q>>) : p \in JointRandParts, q \in JointRandParts}

\* an optional value of the set S
Optional(S) == {None} \cup {Some(x) : x \in S}

\* the prep shares an Aggregator may send
PrepShares(kind) ==
  [eval_proof : EvalProofs,
   verifier_share : Optional(VerifierShares(kind)),
   joint_rand_part : Optional(JointRandParts)]

\* the lists of prep shares: of two shares, one dropped or one sent again
PrepShareLists(kind) ==
  {[i \in 1 .. n |-> IF i = 2 THEN s2 ELSE s1] :
     s1 \in PrepShares(kind), s2 \in PrepShares(kind), n \in 0 .. MaxPrepShares}

\* the states prep_init may leave
PrepStates ==
  [truncated_out_share : {<<3, 1>>, <<0, 2, 4, 0>>},
   joint_rand_seed : Optional(JointRandSeeds)]

\* prep_shares_to_prep is called on a list of prep shares of any content, or
\* prep_next on a state and a prep message of any content
PrepCallInit ==
  /\ pkind \in FlpKinds
  /\ \/ /\ ppc = "combine"
        /\ pparam \in [level : {0}, prefixes : {<<0>>}, do_weight_check : BOOLEAN]
        /\ pshares \in PrepShareLists(pkind)
        /\ pstate = <<>>
        /\ pmsg = <<>>
     \/ /\ ppc = "next"
        /\ pparam = <<>>
        /\ pshares = <<>>
        /\ pstate \in PrepStates
        /\ pmsg \in Optional(JointRandSeeds)
  /\ pres = <<>>
  /\ pnext = <<>>
  /\ DrvIdle
  /\ ValidIdle
  /\ MasticIdle
  /\ CallIdle

PrepCombineCall ==
  /\ ppc = "combine"
  /\ pres' = prep_shares_to_prep(pkind, 0, pparam, pshares)
  /\ ppc' = "combined"
  /\ UNCHANGED <<pkind, pparam, pshares, pstate, pmsg, pnext, PrepFrame>>

PrepNextCall ==
  /\ ppc = "next"
  /\ pnext' = prep_next(0, pstate, pmsg)
  /\ ppc' = "returned"
  /\ UNCHANGED <<pkind, pparam, pshares, pres, pstate, pmsg, PrepFrame>>

PrepCallNext ==
  \/ PrepCombineCall
  \/ PrepNextCall

\* prep_shares_to_prep and prep_next as functions of their arguments
SpecPrep == PrepCallInit /\ [][PrepCallNext]_vars

\* ------------------------------------------------------------- Mastic claims

\* both Aggregators hold an output share of an untampered report
BothOutput ==
  /\ mpc = "prep"
  /\ mtamper = <<>>
  /\ mout[1] # None /\ mout[2] # None
  /\ Get(mout[1]).err = "none" /\ Get(mout[2]).err = "none"

\* the sum of the two Aggregators' output shares
OutputSum == vec_add(Get(mout[1]).out_share, Get(mout[2]).out_share)

\* per candidate prefix, a count of 1 and the truncated weight where the prefix
\* is alpha's, and the zero vector elsewhere
RECURSIVE ExpectedOutput(_, _, _, _, _)
ExpectedOutput(kind, prefixes, level, alpha, weight) ==
  IF prefixes = <<>> THEN <<>>
  ELSE (IF Head(prefixes) = PrefixOf(alpha, level)
        THEN <<1>> \o truncate(kind, encode(kind, weight))
        ELSE zeros(1 + OUTPUT_LEN(kind)))
         \o ExpectedOutput(kind, Tail(prefixes), level, alpha, weight)

\* C2: for an honest report and a prefix set containing alpha's prefix, the two
\* Aggregators' output shares sum, per prefix, to a count of 1 followed by the
\* truncated weight at the matching prefix and to the zero vector elsewhere.
MasticOutputSum ==
  (/\ BothOutput
   /\ \E k \in 1 .. Len(mparam.prefixes) :
        mparam.prefixes[k] = PrefixOf(mreport.alpha, mparam.level))
    => OutputSum = ExpectedOutput(mkind, mparam.prefixes, mparam.level,
                                  mreport.alpha, mreport.weight)

\* the prep shares of a tampered report were combined under the weight check
TamperedCombined ==
  /\ mpc = "prep"
  /\ mtamper # <<>>
  /\ mtamper[1] # "joint_rand_part"
  /\ mparam.do_weight_check
  /\ mmsg # None

\* C6: when one value of a correction word, of a cs_proof, of a key or of a
\* weight share was changed after sharding, combining the prep shares under the
\* weight check fails, with the VIDPF-verification error or the FLP one.
TamperDetected ==
  TamperedCombined =>
    Get(mmsg).err \in {"VIDPF verification failed", "FLP verification failed"}

\* prep_shares_to_prep returned, and was given two shares
CombinedTwo == ppc = "combined" /\ Len(pshares) = 2

\* the two shares' eval proofs are the same
ProofsAgree == pshares[1].eval_proof = pshares[2].eval_proof

\* C7: prep_shares_to_prep fails when it is not given exactly two prep shares
\* and fails when the two eval proofs differ, whatever do_weight_check, the
\* verifier shares and the joint randomness parts are; it returns no prep
\* message then.
CombineChecksProofsFirst ==
  /\ (ppc = "combined" /\ Len(pshares) # 2) =>
       pres = [err |-> "unexpected number of prep shares", msg |-> None]
  /\ (CombinedTwo /\ ~ProofsAgree) =>
       pres = [err |-> "VIDPF verification failed", msg |-> None]

\* the eval proofs differ, no weight check is asked for, and the call failed
\* with the VIDPF error
CombineChecksProofsFirstWitness ==
  /\ CombinedTwo
  /\ ~ProofsAgree
  /\ ~pparam.do_weight_check
  /\ pres.err = "VIDPF verification failed"

\* both verifier shares are present
VerifiersPresent ==
  pshares[1].verifier_share # None /\ pshares[2].verifier_share # None

\* FLP.decide of the sum of the two verifier shares
VerifierAccepted ==
  decide(pkind, vec_add(Get(pshares[1].verifier_share), Get(pshares[2].verifier_share)))

\* C8: given two shares with equal eval proofs, under do_weight_check the call
\* fails when a verifier share is absent and fails when FLP.decide rejects the
\* sum of the verifier shares, whatever the joint randomness parts are; without
\* do_weight_check it succeeds whatever the verifier shares are.
CombineChecksVerifier ==
  (CombinedTwo /\ ProofsAgree) =>
    /\ (pparam.do_weight_check /\ ~VerifiersPresent) =>
         pres.err = "expected FLP verifier shares"
    /\ (pparam.do_weight_check /\ VerifiersPresent /\ ~VerifierAccepted) =>
         pres.err = "FLP verification failed"
    /\ ~pparam.do_weight_check => pres.err = "none"

\* a rejected verifier made the call fail though both joint randomness parts
\* were there
CombineChecksVerifierWitness ==
  /\ CombinedTwo
  /\ ProofsAgree
  /\ pparam.do_weight_check
  /\ VerifiersPresent
  /\ ~VerifierAccepted
  /\ JOINT_RAND_LEN(pkind) > 0
  /\ pshares[1].joint_rand_part # None /\ pshares[2].joint_rand_part # None
  /\ pres.err = "FLP verification failed"

\* C9: when prep_shares_to_prep succeeds, its result is None exactly when
\* do_weight_check is false or the FLP has no joint randomness; otherwise both
\* joint randomness parts are present and the result is the seed derived from
\* the zero seed and the two parts of the prep shares.
CombineResult ==
  (ppc = "combined" /\ pres.err = "none") =>
    /\ pres.msg = None <=> (~pparam.do_weight_check \/ JOINT_RAND_LEN(pkind) = 0)
    /\ pres.msg # None =>
         /\ pshares[1].joint_rand_part # None /\ pshares[2].joint_rand_part # None
         /\ Get(pres.msg) =
              derive_seed(0, dst(0, USAGE_JOINT_RAND_SEED),
                          <<Get(pshares[1].joint_rand_part),
                            Get(pshares[2].joint_rand_part)>>)

\* the call returned the seed of two different parts
CombineResultWitness ==
  /\ ppc = "combined"
  /\ pres.err = "none"
  /\ pres.msg # None
  /\ pshares[1].joint_rand_part # pshares[2].joint_rand_part

\* C10: prep_next fails or returns the output share of the state, unchanged;
\* with a joint randomness seed in the state it fails when the prep message is
\* absent or is not that seed; without one it returns the output share for any
\* prep message.
PrepNextAllOrNothing ==
  ppc = "returned" =>
    /\ pnext.err = "none" => pnext.out_share = pstate.truncated_out_share
    /\ pnext.err # "none" => pnext.out_share = <<>>
    /\ (pstate.joint_rand_seed # None /\ pmsg = None) => pnext.err # "none"
    /\ (pstate.joint_rand_seed # None /\ pmsg # pstate.joint_rand_seed) =>
         pnext.err # "none"
    /\ pstate.joint_rand_seed = None => pnext.err = "none"

\* a prep message that is a seed, but not the one of the state, made the call fail
PrepNextAllOrNothingWitness ==
  /\ ppc = "returned"
  /\ pstate.joint_rand_seed # None
  /\ pmsg # None
  /\ pmsg # pstate.joint_rand_seed
  /\ pnext.err = "joint rand confirmation failed"

\* ------------------------------------------------------------- preparation of a report

\* the prep state Aggregator a (1 or 2) holds after prep_init
PrepStateOf(a) == Get(mprep[a]).prep_state

\* C11: for a report that reaches both Aggregators as the Client sharded it,
\* no step of the preparation fails: neither prep_init, nor
\* prep_shares_to_prep, nor prep_next, with and without the weight check and
\* with and without joint randomness; and when an Aggregator's prep state
\* holds a joint randomness seed, the prep message is that seed.
HonestCompletion ==
  (mpc = "prep" /\ mtamper = <<>>) =>
    /\ \A a \in 1 .. SHARES : mprep[a] # None => Get(mprep[a]).err = "none"
    /\ mmsg # None => Get(mmsg).err = "none"
    /\ \A a \in 1 .. SHARES : mout[a] # None => Get(mout[a]).err = "none"
    /\ \A a \in 1 .. SHARES :
         (mmsg # None /\ mprep[a] # None /\ PrepStateOf(a).joint_rand_seed # None) =>
           /\ Get(mmsg).msg # None
           /\ Get(mmsg).msg = PrepStateOf(a).joint_rand_seed

\* both Aggregators hold an output share of an honest report that was
\* prepared under the weight check of an FLP with joint randomness
HonestCompletionWitness ==
  /\ BothOutput
  /\ mparam.do_weight_check
  /\ JOINT_RAND_LEN(mkind) > 0
  /\ PrepStateOf(1).joint_rand_seed # None
  /\ Get(mmsg).msg = PrepStateOf(2).joint_rand_seed

\* the public share as it reached the Aggregators, before any prep_init call
SentPublicShare ==
  LET sh == shard(mkind, mreport.ctx, [alpha |-> mreport.alpha, weight |-> mreport.weight],
                  mreport.nonce, mreport.rand)
  IN IF mtamper = <<>> THEN sh.public_share
     ELSE TamperPublicShare(sh.public_share, mtamper)

\* Aggregator j (1 or 2) derived in prep_init a joint randomness part that is
\* not the one the public share held for it
DerivedPartDiffers(j) ==
  /\ mprep[j] # None
  /\ Get(mprep[j]).err = "none"
  /\ Get(mprep[j]).prep_share.joint_rand_part # None
  /\ Get(Get(mprep[j]).prep_share.joint_rand_part) # Get(SentPublicShare.joint_rand_parts)[j]

\* C12: under the weight check of an FLP with joint randomness, when the part
\* an Aggregator derives in prep_init is not the one the public share holds
\* for it, the other Aggregator's prep_next fails with the joint randomness
\* confirmation error and returns no output share.
JointRandBinding ==
  (mpc = "prep" /\ mparam.do_weight_check /\ JOINT_RAND_LEN(mkind) > 0) =>
    \A j \in 1 .. SHARES :
      (DerivedPartDiffers(j) /\ mout[3 - j] # None) =>
        Get(mout[3 - j]) = [err |-> "joint rand confirmation failed", out_share |-> <<>>]

\* the share of beta that Vidpf.eval returns to Aggregator a (1 or 2) in prep_init
EvalBetaShare(a) ==
  eval(a - 1, mpub.correction_words, mpub.cs_proofs, minp[a].key, mparam.level,
       mparam.prefixes, VidpfBinder(mreport.ctx, mreport.nonce)).beta_share

\* both prep_init calls returned, and the truncated sum of the weight shares
\* the FLP is queried on is not the sum of the VIDPF's shares of beta
WeightVidpfMismatch ==
  /\ mpc = "prep"
  /\ mprep[1] # None /\ mprep[2] # None
  /\ Get(mprep[1]).err = "none" /\ Get(mprep[2]).err = "none"
  /\ truncate(mkind, vec_add(minp[1].beta_share, minp[2].beta_share))
       # vec_add(EvalBetaShare(1), EvalBetaShare(2))

\* C13: when the truncated sum of the two weight shares differs from the sum
\* of the shares of beta that the VIDPF evaluation returns, the preparation
\* fails and no Aggregator returns an output share.
WeightVidpfConsistency ==
  WeightVidpfMismatch =>
    /\ mmsg # None => Get(mmsg).err # "none"
    /\ \A a \in 1 .. SHARES : mout[a] # None => Get(mout[a]).err # "none"

\* ------------------------------------------------------------- Mastic: aggregation

\* FLP.decode, left uninterpreted: the result of an aggregate is what the
\* circuit makes of the output vector and the number of measurements
decode(kind, output, meas_count) == <<"decode", output, meas_count>>

\* Mastic.agg_init
agg_init(kind, agg_param) == zeros(Len(agg_param.prefixes) * (1 + OUTPUT_LEN(kind)))

\* Mastic.agg_update
agg_update(kind, agg_param, agg_share, out_share) == vec_add(agg_share, out_share)

\* (mutant) the loop of merge, the aggregate subtracted from each share
RECURSIVE MergeLoopSub(_, _)
MergeLoopSub(agg, agg_shares) ==
  IF agg_shares = <<>> THEN agg
  ELSE MergeLoopSub(vec_sub(Head(agg_shares), agg), Tail(agg_shares))

\* "for agg_share in agg_shares" of Mastic.merge
RECURSIVE MergeLoop(_, _)
MergeLoop(agg, agg_shares) ==
  IF agg_shares = <<>> THEN agg
  ELSE MergeLoop(vec_add(agg, Head(agg_shares)), Tail(agg_shares))

\* Mastic.merge
merge(kind, agg_param, agg_shares) == MergeLoop(agg_init(kind, agg_param), agg_shares)

\* (mutant) the loop of unshard, the count read from the end of each chunk
RECURSIVE UnshardLoopCountLast(_, _)
UnshardLoopCountLast(kind, agg) ==
  IF Len(agg) = 0 THEN <<>>
  ELSE LET f == front(OUTPUT_LEN(kind) + 1, agg)
       IN <<decode(kind, SubSeq(f[1], 1, Len(f[1]) - 1), f[1][Len(f[1])])>>
            \o UnshardLoopCountLast(kind, f[2])

\* "while len(agg) > 0" of Mastic.unshard
RECURSIVE UnshardLoop(_, _)
UnshardLoop(kind, agg) ==
  IF Len(agg) = 0 THEN <<>>
  ELSE LET f == front(OUTPUT_LEN(kind) + 1, agg)
       IN <<decode(kind, Tail(f[1]), f[1][1])>> \o UnshardLoop(kind, f[2])

\* Mastic.unshard
unshard(kind, agg_param, agg_shares, num_measurements) ==
  UnshardLoop(kind, merge(kind, agg_param, agg_shares))

\* C14: the output share prep_next returns has len(prefixes) * (1 + OUTPUT_LEN)
\* elements, the length of the vector agg_init returns for the aggregation
\* parameter, so that agg_update adds two vectors of one length.
OutShareLength ==
  mpc = "prep" =>
    \A a \in 1 .. SHARES :
      (mout[a] # None /\ Get(mout[a]).err = "none") =>
        /\ Len(Get(mout[a]).out_share) = Len(mparam.prefixes) * (1 + OUTPUT_LEN(mkind))
        /\ Len(Get(mout[a]).out_share) = Len(agg_init(mkind, mparam))

\* ------------------------------------------------------------- the shares of a report

\* the joint randomness the Client proves under: that of the parts in the
\* public share, or none
ClientJointRand ==
  IF JOINT_RAND_LEN(mkind) > 0
  THEN joint_rand(mkind, mreport.ctx,
                  joint_rand_seed(mreport.ctx, Get(mpub.joint_rand_parts)))
  ELSE <<>>

\* the proof the Client generated: prove_rand comes from the seed that
\* follows the VIDPF's randomness in rand
ClientProof ==
  prove(mkind, encode(mkind, mreport.weight),
        prove_rand(mkind, mreport.ctx, mreport.rand[RAND_SIZE + 1]), ClientJointRand)

\* C15: the two weight shares shard returns sum to FLP.encode(weight), and the
\* Leader's proof share and the proof share the Helper expands from its seed
\* sum to the proof FLP.prove returns for the encoded weight, with and
\* without joint randomness.
ShardSharesSum ==
  (mpc = "sharded" /\ mtamper = <<>>) =>
    /\ vec_add(minp[1].beta_share, minp[2].beta_share) = encode(mkind, mreport.weight)
    /\ vec_add(Get(minp[1].proof_share),
               expand_input_share(mkind, mreport.ctx, 1, minp[2]).proof_share)
         = ClientProof

\* a report with joint randomness whose weight is not zero and whose Helper
\* shares are not zero
ShardSharesSumWitness ==
  /\ mpc = "sharded"
  /\ mtamper = <<>>
  /\ JOINT_RAND_LEN(mkind) > 0
  /\ mreport.weight = 3
  /\ minp[2].beta_share # zeros(MEAS_LEN(mkind))
  /\ minp[1].beta_share # encode(mkind, mreport.weight)
  /\ Get(minp[1].proof_share) # ClientProof

\* ------------------------------------------------------------- shard and its randomness

\* the longest rand handed to shard
MaxRandLen == 8

\* Mastic.RAND_SIZE, as the constructor computes it
MASTIC_RAND_SIZE(kind) ==
  RAND_SIZE + 2 * SEED_SIZE + MEAS_LEN(kind)
    + (IF JOINT_RAND_LEN(kind) > 0 THEN SEED_SIZE ELSE 0)

\* the k-th random string of n units
RandOfLen(n, k) == [i \in 1 .. n |-> (k * i + (i \div 2) + k) % SeedMod]

\* shard is called on a measurement and a rand of any length
ShardCallInit ==
  /\ fpc = "call"
  /\ fargs \in {[kind |-> kind, measurement |-> [alpha |-> alpha, weight |-> weight],
                  nonce |-> NonceOf(k), rand |-> RandOfLen(n, k)] :
                   kind \in FlpKinds, alpha \in {0, Pow2(BITS) - 1}, weight \in 0 .. 1,
                   k \in 1 .. MaxRands, n \in 0 .. MaxRandLen}
  /\ fres = <<>>
  /\ DrvIdle
  /\ ValidIdle
  /\ MasticIdle
  /\ PrepIdle

ShardCall ==
  /\ fpc = "call"
  /\ fres' = shard(fargs.kind, 0, fargs.measurement, fargs.nonce, fargs.rand)
  /\ fpc' = "done"
  /\ UNCHANGED <<fargs, CallFrame>>

ShardCallNext == ShardCall

\* shard as a function of the measurement and of rand
SpecShardRand == ShardCallInit /\ [][ShardCallNext]_vars

\* the seed that shard is to read at the given place of rand: SEED_SIZE units
SeedAt(rand, at) == SubSeq(rand, at + 1, at + SEED_SIZE)

\* C16: given rand of Mastic.RAND_SIZE units, shard returns shares: it reads
\* the VIDPF's randomness, then one seed of SEED_SIZE units each for the
\* prover, for the Leader when there is joint randomness, for the Helper and
\* for the Helper's weight share, and nothing is left over; given rand of any
\* other length it fails.
ShardConsumesRand ==
  fpc = "done" =>
    IF Len(fargs.rand) = MASTIC_RAND_SIZE(fargs.kind)
    THEN /\ fres.err = "none"
         /\ fres.input_shares[2].seed
              = Some(SeedVal(SeedAt(fargs.rand,
                       RAND_SIZE + SEED_SIZE
                         + (IF JOINT_RAND_LEN(fargs.kind) > 0 THEN SEED_SIZE ELSE 0))))
    ELSE fres.err # "none"

\* ------------------------------------------------------------- agg_update, merge, unshard

\* the longest list of aggregate shares or of output shares
MaxAggShares == 3

\* four vectors of the length agg_init gives for the aggregation parameter
AggVectors(kind, agg_param) ==
  {[i \in 1 .. Len(agg_init(kind, agg_param)) |-> (c * i + (c \div 2)) % FieldMod] :
     c \in 0 .. 3}

\* the lists of at most MaxAggShares such vectors
AggShareLists(kind, agg_param) ==
  UNION {[1 .. n -> AggVectors(kind, agg_param)] : n \in 0 .. MaxAggShares}

\* an Aggregator folds output shares into its aggregate share, from agg_init on
RECURSIVE FoldOutShares(_, _, _, _)
FoldOutShares(kind, agg_param, agg_share, out_shares) ==
  IF out_shares = <<>> THEN agg_share
  ELSE FoldOutShares(kind, agg_param,
                     agg_update(kind, agg_param, agg_share, Head(out_shares)),
                     Tail(out_shares))

\* the function named fn applied to a list of vectors
AggApply(fn, kind, agg_param, shares, num_measurements) ==
  IF fn = "merge" THEN merge(kind, agg_param, shares)
  ELSE IF fn = "fold"
  THEN FoldOutShares(kind, agg_param, agg_init(kind, agg_param), shares)
  ELSE unshard(kind, agg_param, shares, num_measurements)

\* merge or unshard is called on a list of aggregate shares, or an Aggregator
\* folds a list of output shares
AggCallInit ==
  /\ fpc = "call"
  /\ fargs \in {[fn |-> fn, kind |-> kind, agg_param |-> agg_param, shares |-> shares,
                  num_measurements |-> IF fn = "unshard" THEN n ELSE 0] :
                   fn \in {"merge", "fold", "unshard"}, kind \in FlpKinds,
                   agg_param \in [level : {0}, prefixes : {<<0>>, <<0, 1>>},
                                  do_weight_check : {TRUE}],
                   shares \in UNION {AggShareLists(k, q) :
                                       k \in FlpKinds,
                                       q \in [level : {0}, prefixes : {<<0>>, <<0, 1>>},
                                              do_weight_check : {TRUE}]},
                   n \in 0 .. 1}
  /\ \A i \in 1 .. Len(fargs.shares) :
       Len(fargs.shares[i]) = Len(agg_init(fargs.kind, fargs.agg_param))
  /\ fres = <<>>
  /\ DrvIdle
  /\ ValidIdle
  /\ MasticIdle
  /\ PrepIdle

AggMergeCall ==
  /\ fpc = "call"
  /\ fargs.fn = "merge"
  /\ fres' = merge(fargs.kind, fargs.agg_param, fargs.shares)
  /\ fpc' = "done"
  /\ UNCHANGED <<fargs, CallFrame>>

AggFoldCall ==
  /\ fpc = "call"
  /\ fargs.fn = "fold"
  /\ fres' = FoldOutShares(fargs.kind, fargs.agg_param,
                           agg_init(fargs.kind, fargs.agg_param), fargs.shares)
  /\ fpc' = "done"
  /\ UNCHANGED <<fargs, CallFrame>>

AggUnshardCall ==
  /\ fpc = "call"
  /\ fargs.fn = "unshard"
  /\ fres' = unshard(fargs.kind, fargs.agg_param, fargs.shares, fargs.num_measurements)
  /\ fpc' = "done"
  /\ UNCHANGED <<fargs, CallFrame>>

AggCallNext ==
  \/ AggMergeCall
  \/ AggFoldCall
  \/ AggUnshardCall

\* aggregation and unsharding as functions of the shares
SpecAgg == AggCallInit /\ [][AggCallNext]_vars

\* the orderings of a list of n elements
Perms(n) == {q \in [1 .. n -> 1 .. n] : \A i, j \in 1 .. n : q[i] = q[j] => i = j}

\* the list in the order q
Permuted(shares, q) == [i \in 1 .. Len(shares) |-> shares[q[i]]]

\* C17: folding output shares into agg_init with agg_update, and merging
\* aggregate shares, give the same vector for every order of the list;
\* agg_update is commutative and associative; merging the merged halves of a
\* list gives what merging the list gives; merge of no share is agg_init.
AggOrderIndependent ==
  (fpc = "done" /\ fargs.fn \in {"merge", "fold"}) =>
    LET kind == fargs.kind
        p == fargs.agg_param
        sh == fargs.shares
        n == Len(fargs.shares)
    IN /\ \A q \in Perms(n) : AggApply(fargs.fn, kind, p, Permuted(sh, q), 0) = fres
       /\ \A i, j \in 1 .. n :
            agg_update(kind, p, sh[i], sh[j]) = agg_update(kind, p, sh[j], sh[i])
       /\ \A i, j, k \in 1 .. n :
            agg_update(kind, p, agg_update(kind, p, sh[i], sh[j]), sh[k])
              = agg_update(kind, p, sh[i], agg_update(kind, p, sh[j], sh[k]))
       /\ fargs.fn = "merge" =>
            \A k \in 0 .. n :
              merge(kind, p, <<merge(kind, p, SubSeq(sh, 1, k)),
                              merge(kind, p, SubSeq(sh, k + 1, n))>>) = fres
       /\ (fargs.fn = "merge" /\ n = 0) => fres = agg_init(kind, p)

\* three different shares were merged into a vector that is none of them
AggOrderIndependentWitness ==
  /\ fpc = "done"
  /\ fargs.fn = "merge"
  /\ Len(fargs.shares) = 3
  /\ fargs.shares[1] # fargs.shares[2]
  /\ fargs.shares[2] # fargs.shares[3]
  /\ fargs.shares[1] # fargs.shares[3]
  /\ \A i \in 1 .. 3 : fres # fargs.shares[i]
  /\ fres # agg_init(fargs.kind, fargs.agg_param)

\* the sum of the i-th elements of the shares
RECURSIVE SumAt(_, _)
SumAt(shares, i) ==
  IF shares = <<>> THEN 0 ELSE FAdd(Head(shares)[i], SumAt(Tail(shares), i))

\* the k-th block of 1 + OUTPUT_LEN sums
Chunk(kind, shares, k) ==
  [i \in 1 .. (1 + OUTPUT_LEN(kind)) |-> SumAt(shares, (k - 1) * (1 + OUTPUT_LEN(kind)) + i)]

\* C18: unshard returns one result per prefix, in the order of the prefixes:
\* the k-th is FLP.decode of the rest of the k-th block of 1 + OUTPUT_LEN
\* elements of the sum of the aggregate shares, with the block's first
\* element as the count; num_measurements has no influence on it.
UnshardChunks ==
  (fpc = "done" /\ fargs.fn = "unshard") =>
    /\ Len(fres) = Len(fargs.agg_param.prefixes)
    /\ \A k \in 1 .. Len(fargs.agg_param.prefixes) :
         fres[k] = decode(fargs.kind, Tail(Chunk(fargs.kind, fargs.shares, k)),
                          Chunk(fargs.kind, fargs.shares, k)[1])
    /\ \A n \in 0 .. MaxAggShares :
         unshard(fargs.kind, fargs.agg_param, fargs.shares, n) = fres

\* two prefixes, two aggregate shares, two different results, with a count
\* that is not the element after it
UnshardChunksWitness ==
  /\ fpc = "done"
  /\ fargs.fn = "unshard"
  /\ Len(fargs.agg_param.prefixes) = 2
  /\ Len(fargs.shares) = 2
  /\ fargs.shares[1] # fargs.shares[2]
  /\ Len(fres) = 2
  /\ fres[1] # fres[2]
  /\ fres[1][3] # fres[1][2][1]
  /\ fres[1][3] # 0

\* ------------------------------------------------------------- encode_agg_param

\* to_be_bytes(val, length): the length bytes of val, the highest first
RECURSIVE Pow256(_)
Pow256(n) == IF n = 0 THEN 1 ELSE 256 * Pow256(n - 1)
to_be_bytes(val, length) == [i \in 1 .. length |-> (val \div Pow256(length - i)) % 256]

\* "for (bit_position, bit) in enumerate(chunk)": the byte of at most 8 bits,
\* the first bit the highest
RECURSIVE ByteOfChunk(_, _)
ByteOfChunk(chunk, bit_position) ==
  IF chunk = <<>> THEN 0
  ELSE Head(chunk) * Pow2(7 - bit_position) + ByteOfChunk(Tail(chunk), bit_position + 1)

\* "for chunk in itertools.batched(prefix, 8)": the bytes of one prefix, a
\* tuple of bits
RECURSIVE EncodePrefix(_)
EncodePrefix(prefix) ==
  IF prefix = <<>> THEN <<>>
  ELSE <<ByteOfChunk(front(8, prefix)[1], 0)>> \o EncodePrefix(front(8, prefix)[2])

\* "for prefix in prefixes"
RECURSIVE EncodePrefixes(_)
EncodePrefixes(prefixes) ==
  IF prefixes = <<>> THEN <<>>
  ELSE EncodePrefix(Head(prefixes)) \o EncodePrefixes(Tail(prefixes))

\* (mutant) do_weight_check left out of the encoding
encode_agg_param_NoWeightCheck(agg_param) ==
  IF agg_param.level < 0 \/ agg_param.level >= Pow2(16)
  THEN [err |-> "level out of range", encoded |-> <<>>]
  ELSE IF Len(agg_param.prefixes) \div Pow2(16) >= Pow2(16)
  THEN [err |-> "number of prefixes out of range", encoded |-> <<>>]
  ELSE IF Len(EncodePrefixes(agg_param.prefixes))
            # ((agg_param.level + 1 + 7) \div 8) * Len(agg_param.prefixes)
  THEN [err |-> "AssertionError", encoded |-> <<>>]
  ELSE [err |-> "none",
        encoded |-> to_be_bytes(agg_param.level, 2)
                      \o to_be_bytes(Len(agg_param.prefixes), 4)
                      \o EncodePrefixes(agg_param.prefixes)]

\* Mastic.encode_agg_param; the prefixes are tuples of bits here
encode_agg_param(agg_param) ==
  IF agg_param.level < 0 \/ agg_param.level >= Pow2(16)
  THEN [err |-> "level out of range", encoded |-> <<>>]
  ELSE IF Len(agg_param.prefixes) \div Pow2(16) >= Pow2(16)
  THEN [err |-> "number of prefixes out of range", encoded |-> <<>>]
  ELSE IF Len(EncodePrefixes(agg_param.prefixes))
            # ((agg_param.level + 1 + 7) \div 8) * Len(agg_param.prefixes)
  THEN [err |-> "AssertionError", encoded |-> <<>>]
  ELSE [err |-> "none",
        encoded |-> to_be_bytes(agg_param.level, 2)
                      \o to_be_bytes(Len(agg_param.prefixes), 4)
                      \o to_be_bytes(IF agg_param.do_weight_check THEN 1 ELSE 0, 1)
                      \o EncodePrefixes(agg_param.prefixes)]

\* prefixes of level + 1 bits to encode: both of level 0, two of level 1, two
\* of level 8, and none of the levels next to the bounds of the two bytes
EncPrefixes(level) ==
  IF level = 0 THEN {<<0>>, <<1>>}
  ELSE IF level = 1 THEN {<<0, 1>>, <<1, 0>>}
  ELSE IF level = 8 THEN {<<0, 0, 0, 0, 0, 0, 0, 0, 1>>, <<1, 0, 0, 0, 0, 0, 0, 0, 0>>}
  ELSE {}

EncLevels == {0, 1, 8, 256, Pow2(16) - 1, Pow2(16)}

\* the aggregation parameters to encode
EncParams ==
  UNION {[level : {l},
          prefixes : UNION {[1 .. n -> EncPrefixes(l)] : n \in 0 .. MaxPrefixes},
          do_weight_check : BOOLEAN] : l \in EncLevels}

\* encode_agg_param is called on two aggregation parameters
EncodeCallInit ==
  /\ fpc = "call"
  /\ fargs \in [first : EncParams, second : EncParams]
  /\ fres = <<>>
  /\ DrvIdle
  /\ ValidIdle
  /\ MasticIdle
  /\ PrepIdle

EncodeCall ==
  /\ fpc = "call"
  /\ fres' = [first |-> encode_agg_param(fargs.first),
              second |-> encode_agg_param(fargs.second)]
  /\ fpc' = "done"
  /\ UNCHANGED <<fargs, CallFrame>>

EncodeCallNext == EncodeCall

\* encode_agg_param as a function of the aggregation parameter
SpecEncode == EncodeCallInit /\ [][EncodeCallNext]_vars

\* C19: aggregation parameters with a level of 2^16 or more are rejected; the
\* others (few prefixes, each of level + 1 bits) are encoded, and two of them
\* that differ in the level, in the list of prefixes or in do_weight_check
\* have different encodings.
EncodeInjective ==
  fpc = "done" =>
    /\ fargs.first.level >= Pow2(16) => fres.first.err # "none"
    /\ fargs.first.level < Pow2(16) => fres.first.err = "none"
    /\ (/\ fargs.first.level < Pow2(16)
        /\ fargs.second.level < Pow2(16)
        /\ fargs.first # fargs.second) => fres.first.encoded # fres.second.encoded

\* two parameters of different levels whose prefixes are encoded to the same
\* bytes
EncodeInjectiveWitness ==
  /\ fpc = "done"
  /\ fargs.first.level = 0
  /\ fargs.second.level = 1
  /\ fargs.first.prefixes = <<<<1>>, <<0>>>>
  /\ fargs.second.prefixes = <<<<1, 0>>, <<0, 1>>>>
  /\ fargs.first.do_weight_check = fargs.second.do_weight_check
  /\ fres.first.err = "none"
  /\ fres.second.err = "none"
  /\ fres.first.encoded # fres.second.encoded

\* ------------------------------------------------------------- Vidpf.eval on any arguments

\* the lists of at most MaxPrefixes candidate prefixes of any length, with
\* and without repetitions
AnyPrefixLists ==
  UNION {[1 .. n -> 0 .. Pow2(BITS)] : n \in 0 .. MaxPrefixes}

\* Vidpf.eval is called with the public share and a key of a generated
\* report, and any aggregator ID, level and list of prefixes
EvalCallInit ==
  /\ fpc = "call"
  /\ fargs \in {[agg_id |-> agg_id, level |-> level, prefixes |-> prefixes,
                  binder |-> 0, gen |-> gen(alpha, <<1>>, 0, rand)] :
                   agg_id \in 0 .. SHARES, level \in 0 .. BITS,
                   prefixes \in AnyPrefixLists,
                   alpha \in {1, Pow2(BITS) - 2}, rand \in {<<1, 8>>, <<2, 13>>}}
  /\ fres = <<>>
  /\ DrvIdle
  /\ ValidIdle
  /\ MasticIdle
  /\ PrepIdle

EvalCall ==
  /\ fpc = "call"
  /\ fres' = eval(fargs.agg_id, fargs.gen.correction_words, fargs.gen.cs_proofs,
                  fargs.gen.init_seed[fargs.agg_id % SHARES], fargs.level,
                  fargs.prefixes, fargs.binder)
  /\ fpc' = "done"
  /\ UNCHANGED <<fargs, CallFrame>>

EvalCallNext == EvalCall

\* Vidpf.eval as a function of its arguments
SpecEval == EvalCallInit /\ [][EvalCallNext]_vars

\* the arguments Vidpf.eval is to reject
EvalArgsInvalid ==
  \/ fargs.agg_id >= 2
  \/ fargs.level >= BITS
  \/ \E k \in 1 .. Len(fargs.prefixes) : fargs.prefixes[k] >= Pow2(fargs.level + 1)
  \/ \E i, j \in 1 .. Len(fargs.prefixes) : i # j /\ fargs.prefixes[i] = fargs.prefixes[j]

\* what Vidpf.eval returns for the k-th prefix alone
EvalOfPrefix(k) ==
  eval(fargs.agg_id, fargs.gen.correction_words, fargs.gen.cs_proofs,
       fargs.gen.init_seed[fargs.agg_id % SHARES], fargs.level,
       <<fargs.prefixes[k]>>, fargs.binder)

\* C20: Vidpf.eval fails, and returns neither shares nor a proof, when the
\* aggregator ID is 2 or more, the level is BITS or more, a prefix has more
\* than level + 1 bits or a prefix occurs twice; on all other arguments with
\* at least one prefix it returns a share of beta, a proof and one output
\* share per prefix, in the order of the prefixes.
EvalRejectsInvalid ==
  fpc = "done" =>
    /\ EvalArgsInvalid => (fres.err # "none" /\ DOMAIN fres = {"err"})
    /\ (~EvalArgsInvalid /\ fargs.prefixes # <<>>) =>
         /\ fres.err = "none"
         /\ DOMAIN fres = {"err", "beta_share", "out_share", "proof"}
         /\ Len(fres.out_share) = Len(fargs.prefixes)
         /\ \A k \in 1 .. Len(fargs.prefixes) :
              fres.out_share[k] = EvalOfPrefix(k).out_share[1]

\* a call that is rejected only for the length of its last prefix, after the
\* first prefix was walked
EvalRejectsInvalidWitness ==
  /\ fpc = "done"
  /\ fargs.agg_id = 1
  /\ fargs.level = 0
  /\ Len(fargs.prefixes) = 2
  /\ fargs.prefixes[1] = 1
  /\ fargs.prefixes[2] = 2
  /\ fres.err = "prefix too long"

\* ------------------------------------------------------------- the prefix tree share of Vidpf.eval

\* prefix_tree_share and pi_proof as the walk of the prefixes leaves them
EvalTree(agg_id, correction_words, cs_proofs, init_seed, level, prefixes, binder) ==
  EvalPrefixes([share |-> <<>>, seed |-> init_seed, ctrl |-> agg_id,
                pi_proof |-> ROOT_PROOF, err |-> "none"],
               [agg_id |-> agg_id, correction_words |-> correction_words,
                cs_proofs |-> cs_proofs, init_seed |-> init_seed, level |-> level,
                prefixes |-> prefixes, binder |-> binder], 1)

\* the lists of at most MaxPrefixes unique candidate prefixes of level + 1
\* bits, the empty list among them
TreePrefixLists(level) ==
  {p \in UNION {[1 .. n -> 0 .. (Pow2(level + 1) - 1)] : n \in 0 .. MaxPrefixes} :
     IsUnique(p)}

\* the single values of the VIDPF part of a public share that may be changed
TreeTampers ==
  {<<"seed_cw", l, 0>> : l \in 1 .. BITS}
    \cup {<<"ctrl_cw", l, b>> : l \in 1 .. BITS, b \in 0 .. 1}
    \cup {<<"w_cw", l, j>> : l \in 1 .. BITS, j \in 1 .. VALUE_LEN}
    \cup {<<"cs_proof", l, 0>> : l \in 1 .. BITS}

\* a report and the arguments of the calls: the keys and the public share gen
\* returned (public[1]), seed and ctrl of gen after each level (levels), and
\* the public share as it was received (public[2]), which is the same or
\* differs in one value
TreeArgs(alpha, beta, rand, level, prefixes, t, g) ==
  [alpha |-> alpha, beta |-> beta, binder |-> 0, level |-> level,
   prefixes |-> prefixes, tamper |-> t, init_seed |-> g.init_seed,
   levels |-> GenStates(0, g.init_seed, [b \in 0 .. 1 |-> b], alpha, beta, 0),
   public |-> <<[correction_words |-> g.correction_words, cs_proofs |-> g.cs_proofs],
                IF t = <<>>
                THEN [correction_words |-> g.correction_words, cs_proofs |-> g.cs_proofs]
                ELSE TamperPublicShare([correction_words |-> g.correction_words,
                                        cs_proofs |-> g.cs_proofs], t)>>]

TreeCallInit ==
  /\ fpc = "call"
  /\ fargs \in {TreeArgs(alpha, beta, rand, level, prefixes, t, gen(alpha, beta, 0, rand)) :
                  alpha \in 0 .. (Pow2(BITS) - 1), beta \in {<<1>>, <<3>>},
                  rand \in {<<1, 8>>, <<2, 13>>},
                  level \in {BITS - 1}, prefixes \in TreePrefixLists(BITS - 1),
                  t \in {<<>>} \cup TreeTampers}
       \cup {TreeArgs(alpha, beta, rand, level, prefixes, t, gen(alpha, beta, 0, rand)) :
                  alpha \in 0 .. (Pow2(BITS) - 1), beta \in {<<1>>, <<3>>},
                  rand \in {<<1, 8>>, <<2, 13>>},
                  level \in {0}, prefixes \in TreePrefixLists(0),
                  t \in {<<>>} \cup TreeTampers}
  /\ fres = <<>>
  /\ DrvIdle
  /\ ValidIdle
  /\ MasticIdle
  /\ PrepIdle

\* the calls are made in the order (Aggregator 0, public[1]), (1, public[1]),
\* (0, public[2]), (1, public[2])
TreeCallAgg(n) == n % SHARES
TreeCallPublic(n) == (n \div SHARES) + 1

\* one call of Vidpf.eval: what it returns, and its prefix_tree_share and
\* pi_proof at the end of the walk
TreeCallResult(agg_id, pub, w, r) ==
  [agg_id |-> agg_id, public |-> pub, share |-> w.share, pi_proof |-> w.pi_proof,
   res |-> r]

TreeCall ==
  /\ fpc = "call"
  /\ \E agg_id \in {TreeCallAgg(Len(fres))}, pub \in {TreeCallPublic(Len(fres))} :
       fres' = Append(fres,
         TreeCallResult(agg_id, pub,
           EvalTree(agg_id, fargs.public[pub].correction_words,
                    fargs.public[pub].cs_proofs, fargs.init_seed[agg_id],
                    fargs.level, fargs.prefixes, fargs.binder),
           eval(agg_id, fargs.public[pub].correction_words,
                fargs.public[pub].cs_proofs, fargs.init_seed[agg_id],
                fargs.level, fargs.prefixes, fargs.binder)))
  /\ fpc' = IF Len(fres) + 1 = 2 * SHARES THEN "done" ELSE "call"
  /\ UNCHANGED <<fargs, CallFrame>>

TreeCallNext == TreeCall

\* Vidpf.eval called by both Aggregators on the public share of a report and
\* on the public share as received
SpecTree == TreeCallInit /\ [][TreeCallNext]_vars

\* the vectors the n-th call feeds into the path-proof hash, in order
TreePathInput(n) ==
  PathInput(fres[n].share,
            [level |-> fargs.level, prefixes |-> fargs.prefixes], 1)

\* C21 as stated: in an honest evaluation every vector an Aggregator feeds
\* into the path-proof hash, y_parent - (y_left + y_right), is the zero
\* vector.
PathInputZero ==
  \A n \in 1 .. Len(fres) :
    fres[n].public = 1 =>
      \A i \in 1 .. Len(TreePathInput(n)) : TreePathInput(n)[i] = zeros(VALUE_LEN)

\* C21: in an honest evaluation the vectors the two Aggregators feed into the
\* path-proof hash are the same, prefix by prefix and level by level (the
\* difference of the two Aggregators' vectors is zero, so their path proofs
\* are equal), and there is one vector per prefix and level below `level`.
PathInputAgrees ==
  Len(fres) >= SHARES =>
    /\ TreePathInput(1) = TreePathInput(2)
    /\ Len(TreePathInput(1)) = Len(fargs.prefixes) * fargs.level
    /\ fargs.prefixes # <<>> => fres[1].res.proof[2] = fres[2].res.proof[2]

\* both Aggregators fed the same two vectors for two prefixes below the first
\* level, and one of the vectors is not zero
PathInputAgreesWitness ==
  /\ Len(fres) >= SHARES
  /\ fargs.level = 1
  /\ Len(fargs.prefixes) = 2
  /\ fargs.prefixes[1] \div 2 = fargs.alpha \div 2
  /\ TreePathInput(1) = TreePathInput(2)
  /\ Len(TreePathInput(1)) = 2
  /\ TreePathInput(1)[1] # zeros(VALUE_LEN)

\* ------------------------------------------------------------- prep_init and its arguments

\* what the caller of prep_init keeps of the result r
PrepInitReturned(r) ==
  IF r.err = "none"
  THEN [err |-> "none", prep_state |-> r.prep_state, prep_share |-> r.prep_share]
  ELSE r

\* what prep_init returns to Aggregator a (1 or 2) on the public share as it
\* reached the Aggregators
PrepInitOnSent(a) ==
  PrepInitReturned(prep_init(mkind, mreport.verify_key, mreport.ctx, a - 1, mparam,
                             mreport.nonce, SentPublicShare, minp[a]))

\* C22: prep_init leaves its public_share argument as it was, also when
\* joint_rand_parts[agg_id] is not the part the Aggregator derives; so each
\* Aggregator's prep state and prep share are those of a call on the public
\* share as received, whichever Aggregator runs first on the shared object.
PrepInitNoEffect ==
  mpc = "prep" =>
    /\ mpub = SentPublicShare
    /\ \A a \in 1 .. SHARES : mprep[a] # None => Get(mprep[a]) = PrepInitOnSent(a)

\* ------------------------------------------------------------- control bits of the VIDPF tree

\* node n of level l lies on alpha's path
OnAlphaPath(n, l) == n = PrefixOf(fargs.alpha, l)

\* C23: after every level of Vidpf.gen the two parties' control bits sum to
\* 1 in GF(2); and when both Aggregators evaluate with the keys and the public
\* share gen returned, they evaluate the same nodes, on every evaluated node
\* on alpha's path their control bits differ, and on every evaluated node off
\* alpha's path they hold equal seeds and equal control bits.
ControlBitInvariant ==
  /\ \A i \in 1 .. BITS :
       F2Add(fargs.levels[i].ctrl[0], fargs.levels[i].ctrl[1]) = 1
  /\ Len(fres) >= SHARES =>
       /\ DOMAIN fres[1].share = DOMAIN fres[2].share
       /\ \A nl \in DOMAIN fres[1].share :
            IF OnAlphaPath(nl[1], nl[2])
            THEN fres[1].share[nl].ctrl # fres[2].share[nl].ctrl
            ELSE /\ fres[1].share[nl].seed = fres[2].share[nl].seed
                 /\ fres[1].share[nl].ctrl = fres[2].share[nl].ctrl

\* both Aggregators evaluated, at the last level, a node on alpha's path, its
\* sibling, and a node whose parent is off alpha's path
ControlBitInvariantWitness ==
  /\ Len(fres) >= SHARES
  /\ fargs.level = BITS - 1
  /\ \E nl \in DOMAIN fres[1].share :
       /\ nl[2] = BITS - 1
       /\ OnAlphaPath(nl[1], nl[2])
       /\ fres[1].share[nl].ctrl = 1 - fres[2].share[nl].ctrl
       /\ fres[1].share[nl].seed # fres[2].share[nl].seed
  /\ \E nl \in DOMAIN fres[1].share :
       /\ nl[2] = BITS - 1
       /\ ~OnAlphaPath(nl[1] \div 2, nl[2] - 1)
       /\ fres[1].share[nl].seed = fres[2].share[nl].seed

\* ------------------------------------------------------------- the one-hot proof

\* the call of Aggregator a (1 or 2) on the public share gen returned and its
\* call on the public share as received computed another (seed, ctrl) for the
\* node of the k-th prefix
NodeChanged(a, k) ==
  LET nl == <<fargs.prefixes[k], fargs.level>>
  IN \/ fres[a].share[nl].seed # fres[a + SHARES].share[nl].seed
     \/ fres[a].share[nl].ctrl # fres[a + SHARES].share[nl].ctrl

\* C24: when the (seed, ctrl) an Aggregator computes for the level-`level`
\* node of any prefix of the list changes, the pi_proof that Vidpf.eval
\* returns to it changes.
PiProofCoversPrefixes ==
  \A a \in 1 .. SHARES :
    Len(fres) >= a + SHARES =>
      \A k \in 1 .. Len(fargs.prefixes) :
        NodeChanged(a, k) => fres[a].res.proof[1] # fres[a + SHARES].res.proof[1]

\* ------------------------------------------------------------- the memo of Vidpf.eval

\* eval_next for node n of level l, applied to what the walk holds at the
\* parent p of the node
FreshNode(p, pub, n, l) ==
  eval_next(p.seed, p.ctrl, fargs.public[pub].correction_words[l + 1],
            fargs.public[pub].cs_proofs[l + 1], l, n, p.pi_proof, fargs.binder)

\* (seed, ctrl, y, pi_proof) of node n of level l as a walk from the root to
\* the node computes them, with no memo
RECURSIVE FreshWalk(_, _, _, _)
FreshWalk(agg_id, pub, n, l) ==
  IF l = 0
  THEN FreshNode([seed |-> fargs.init_seed[agg_id], ctrl |-> agg_id,
                  pi_proof |-> ROOT_PROOF], pub, n, l)
  ELSE FreshNode(FreshWalk(agg_id, pub, n \div 2, l - 1), pub, n, l)

\* what the n-th call's Aggregator gets from Vidpf.eval for the k-th prefix
\* alone
TreeEvalOfPrefix(n, k) ==
  eval(fres[n].agg_id, fargs.public[fres[n].public].correction_words,
       fargs.public[fres[n].public].cs_proofs, fargs.init_seed[fres[n].agg_id],
       fargs.level, <<fargs.prefixes[k]>>, fargs.binder)

\* C25: every entry of prefix_tree_share at the end of the walk is what a
\* walk from the root to that node without a memo computes, whatever the
\* prefixes of the list and their order; and the output share of each prefix
\* is the one Vidpf.eval returns for that prefix alone.
MemoEqualsFreshWalk ==
  \A n \in 1 .. Len(fres) :
    /\ \A nl \in DOMAIN fres[n].share :
         fres[n].share[nl] = FreshWalk(fres[n].agg_id, fres[n].public, nl[1], nl[2])
    /\ \A k \in 1 .. Len(fargs.prefixes) :
         fres[n].res.out_share[k] = TreeEvalOfPrefix(n, k).out_share[1]

\* a call on two prefixes of the last level under different parents, in
\* descending order: the second walk finds both nodes of the first level in
\* the memo, and the call holds all six nodes
MemoEqualsFreshWalkWitness ==
  /\ Len(fres) >= 1
  /\ fargs.level = 1
  /\ fargs.prefixes = <<3, 0>>
  /\ Cardinality(DOMAIN fres[1].share) = 6
  /\ fres[1].share[<<0, 1>>] = FreshWalk(0, 1, 0, 1)
  /\ fres[1].share[<<0, 1>>].pi_proof # fres[1].share[<<3, 1>>].pi_proof

\* the entries of prefix_tree_share that Vidpf.eval reads after the walk: the
\* parent and both children for each prefix and level below `level`, the node
\* of each prefix, and the two nodes of level 0
MemoLookups ==
  UNION {{<<fargs.prefixes[k] \div Pow2(fargs.level - l), l>>,
          <<2 * (fargs.prefixes[k] \div Pow2(fargs.level - l)), l + 1>>,
          <<2 * (fargs.prefixes[k] \div Pow2(fargs.level - l)) + 1, l + 1>>} :
           k \in 1 .. Len(fargs.prefixes), l \in 0 .. (fargs.level - 1)}
    \cup {<<fargs.prefixes[k], fargs.level>> : k \in 1 .. Len(fargs.prefixes)}
    \cup {<<0, 0>>, <<1, 0>>}

\* C26: for every Aggregator, level below BITS and list of unique prefixes
\* of level + 1 bits, the empty list included, every entry Vidpf.eval reads
\* after the walk is in prefix_tree_share, and the call returns normally.
MemoComplete ==
  \A n \in 1 .. Len(fres) :
    /\ MemoLookups \subseteq DOMAIN fres[n].share
    /\ fres[n].res.err = "none"

\* ------------------------------------------------------------- the shares of beta

\* C27: when both Aggregators evaluate the keys and the public share gen
\* returned, at any level and on any non-empty list of prefixes, the
\* beta_share values Vidpf.eval returns to them sum to the beta given to
\* Vidpf.gen.
BetaShareSum ==
  (Len(fres) >= SHARES /\ fargs.prefixes # <<>>) =>
    /\ fres[1].res.err = "none" /\ fres[2].res.err = "none"
    /\ vec_add(fres[1].res.beta_share, fres[2].res.beta_share) = fargs.beta

\* both Aggregators evaluated, at the last level, two prefixes off alpha's
\* path, and hold shares of beta neither of which is beta or zero
BetaShareSumWitness ==
  /\ Len(fres) >= SHARES
  /\ fargs.level = BITS - 1
  /\ Len(fargs.prefixes) = 2
  /\ \A k \in 1 .. 2 : fargs.prefixes[k] # PrefixOf(fargs.alpha, fargs.level)
  /\ fres[1].res.beta_share \notin {fargs.beta, zeros(VALUE_LEN)}
  /\ fres[2].res.beta_share \notin {fargs.beta, zeros(VALUE_LEN)}
  /\ vec_add(fres[1].res.beta_share, fres[2].res.beta_share) = fargs.beta

====
